--------------------------- MODULE CoverGraphProofs ---------------------------
(***************************************************************************)
(* What holds of the work inside a cover, for any song, catalogue, voices, *)
(* evidence and machine, whatever the models return and whatever fails.    *)
(***************************************************************************)
EXTENDS CoverGraph, FiniteSetTheorems, SequenceTheorems, WellFoundedInduction, TLAPS

-----------------------------------------------------------------------------
(* The retries of a model: OomLadder *)

Plan == [segment_size : Nat, batch_size : Nat \ {0}, overlap : Nat \ {0}, backend : ComputeBackend]
\* A plan that asks for less of something and for more of nothing.
Less(new, old) ==
  /\ new # old /\ new.backend \in {old.backend, "cpu"}
  /\ new.segment_size <= old.segment_size /\ new.overlap <= old.overlap /\ new.batch_size <= old.batch_size
\* Nothing is left to ask less of.
Smallest(p) == p.backend = "cpu" /\ p.batch_size = 1 /\ p.overlap = 1
\* Plans that ask for less and less, the first on b, down to the last.
Descends(s, b, last) ==
  /\ s \in Seq(Plan) /\ s # <<>> /\ s[Len(s)] = last
  /\ \A i \in 1..Len(s) : s[i].backend \in {b, "cpu"}
  /\ \A i \in 1..(Len(s) - 1) : Less(s[i + 1], s[i])

\* One more knob turned down, if it can be.
LEMMA Descent ==
  ASSUME NEW s, NEW b, NEW last, Descends(s, b, last), NEW p \in Plan, p = last \/ Less(p, last)
  PROVE  Descends(s \o (IF p = last THEN <<>> ELSE <<p>>), b, p)
<1>1. s \in Seq(Plan) /\ Len(s) \in Nat \ {0} /\ s[Len(s)] = last
  BY DEF Descends
<1>2. CASE p = last
  BY <1>1, <1>2, ConcatEmptySeq DEF Descends
<1>3. CASE p # last
  <2> DEFINE t == s \o <<p>>
  <2>1. t \in Seq(Plan) /\ Len(t) = Len(s) + 1 /\ t[Len(s) + 1] = p /\ \A i \in 1..Len(s) : t[i] = s[i]
    BY <1>1
  <2> HIDE DEF t
  <2>2. p.backend \in {b, "cpu"}
    <3>1. last.backend \in {b, "cpu"}
      BY <1>1 DEF Descends
    <3> QED
      BY <1>3, <3>1 DEF Less
  <2>3. \A i \in 1..Len(t) : t[i].backend \in {b, "cpu"}
    BY <1>1, <2>1, <2>2 DEF Descends
  <2>4. \A i \in 1..(Len(t) - 1) : Less(t[i + 1], t[i])
    <3>1. SUFFICES ASSUME NEW i \in 1..Len(s) PROVE Less(t[i + 1], t[i])
      BY <1>1, <2>1
    <3>2. CASE i = Len(s)
      BY <1>1, <1>3, <2>1, <3>2
    <3>3. CASE i # Len(s)
      <4>1. i \in 1..(Len(s) - 1) /\ i + 1 \in 1..Len(s)
        BY <1>1, <3>3
      <4> QED
        BY <2>1, <4>1 DEF Descends
    <3> QED
      BY <3>2, <3>3
  <2>5. Descends(t, b, p)
    BY <1>1, <2>1, <2>3, <2>4 DEF Descends
  <2> QED
    BY <1>3, <2>5 DEF t
<1> QED
  BY <1>2, <1>3

\* The ladder descends from the plan to the smallest one for the processor.
LEMMA LadderDescends ==
  ASSUME NEW plan \in Plan
  PROVE  \E last \in Plan : Smallest(last) /\ Descends(OomLadder(plan, TRUE), plan.backend, last)
<1> DEFINE half == plan.segment_size \div 2
           size == IF plan.segment_size <= MIN_SEGMENT_SIZE THEN plan.segment_size
                   ELSE IF half > MIN_SEGMENT_SIZE THEN half ELSE MIN_SEGMENT_SIZE
           p1 == [plan EXCEPT !.segment_size = size]
           p2 == [p1 EXCEPT !.batch_size = 1]
           p3 == [p2 EXCEPT !.overlap = 1]
           p4 == [p3 EXCEPT !.backend = "cpu"]
           q1 == <<plan>> \o (IF p1 = plan THEN <<>> ELSE <<p1>>)
           q2 == q1 \o (IF p2 = p1 THEN <<>> ELSE <<p2>>)
           q3 == q2 \o (IF p3 = p2 THEN <<>> ELSE <<p3>>)
           q4 == q3 \o (IF p4 = p3 THEN <<>> ELSE <<p4>>)
<1>1. OomLadder(plan, TRUE) = q4
  BY DEF OomLadder
<1>2. size \in Nat /\ size <= plan.segment_size
  <2>1. plan.segment_size \in Nat
    BY DEF Plan
  <2>2. half \in Nat /\ half <= plan.segment_size
    BY <2>1
  <2> HIDE DEF half
  <2> QED
    BY <2>1, <2>2 DEF MIN_SEGMENT_SIZE
<1>3. p1 \in Plan /\ (p1 = plan \/ Less(p1, plan))
  <2> HIDE DEF size
  <2> QED
    BY <1>2 DEF Plan, Less
<1> HIDE DEF p1
<1>4. p2 \in Plan /\ (p2 = p1 \/ Less(p2, p1)) /\ p2.batch_size = 1
  BY <1>3 DEF Plan, Less
<1> HIDE DEF p2
<1>5. p3 \in Plan /\ (p3 = p2 \/ Less(p3, p2)) /\ p3.batch_size = 1 /\ p3.overlap = 1
  BY <1>4 DEF Plan, Less
<1> HIDE DEF p3
<1>6. p4 \in Plan /\ (p4 = p3 \/ Less(p4, p3)) /\ Smallest(p4)
  BY <1>5 DEF Plan, Less, ComputeBackend, Smallest
<1> HIDE DEF p4
<1>7. Descends(<<plan>>, plan.backend, plan)
  BY DEF Descends
<1>8. Descends(q1, plan.backend, p1)
  BY <1>3, <1>7, Descent
<1> HIDE DEF q1
<1>9. Descends(q2, plan.backend, p2)
  BY <1>4, <1>8, Descent
<1> HIDE DEF q2
<1>10. Descends(q3, plan.backend, p3)
  BY <1>5, <1>9, Descent
<1> HIDE DEF q3
<1>11. Descends(q4, plan.backend, p4)
  BY <1>6, <1>10, Descent
<1> QED
  BY <1>1, <1>6, <1>11

\* What is left of a ladder after its first rung is one.
LEMMA LadderTail ==
  ASSUME NEW s, NEW b, NEW last, Descends(s, b, last), Len(s) # 1
  PROVE  Descends(Tail(s), b, last) /\ Less(Head(Tail(s)), Head(s))
<1>1. s \in Seq(Plan) /\ s # <<>>
  BY DEF Descends
<1>2. PICK m \in Nat : Len(s) = m + 2
  <2>1. Len(s) \in Nat /\ Len(s) # 0 /\ Len(s) # 1
    BY <1>1
  <2>2. \A n \in Nat : n # 0 /\ n # 1 => \E m \in Nat : n = m + 2
    <3>1. SUFFICES ASSUME NEW n \in Nat, n # 0, n # 1 PROVE \E m \in Nat : n = m + 2
      OBVIOUS
    <3>2. n - 2 \in Nat /\ n = (n - 2) + 2
      BY <3>1
    <3> QED
      BY <3>2
  <2> QED
    BY <2>1, <2>2
<1>3. Tail(s) \in Seq(Plan) /\ Len(Tail(s)) = m + 1 /\ \A i \in 1..(m + 1) : Tail(s)[i] = s[i + 1]
  BY <1>1, <1>2
<1>4. m + 1 \in 1..(m + 1) /\ (m + 1) + 1 = m + 2 /\ 1 \in 1..(m + 1) /\ m + 1 # 0 /\ (m + 2) - 1 = m + 1
  OBVIOUS
<1>5. Tail(s) # <<>> /\ Tail(s)[m + 1] = last
  <2>1. Tail(s)[m + 1] = s[m + 2]
    BY <1>3, <1>4
  <2>2. s[m + 2] = last
    BY <1>2 DEF Descends
  <2>3. Tail(s) # <<>>
    BY <1>3, <1>4
  <2> QED
    BY <2>1, <2>2, <2>3
<1>6. \A i \in 1..(m + 2) : s[i].backend \in {b, "cpu"}
  BY <1>2 DEF Descends
<1>7. \A i \in 1..(m + 1) : Less(s[i + 1], s[i])
  BY <1>2, <1>4 DEF Descends
<1>8. \A i \in 1..(m + 1) : Tail(s)[i].backend \in {b, "cpu"}
  BY <1>3, <1>6
<1>9. ASSUME NEW i \in 1..((m + 1) - 1) PROVE Less(Tail(s)[i + 1], Tail(s)[i])
  <2>1. i + 1 \in 1..(m + 1) /\ i \in 1..(m + 1)
    OBVIOUS
  <2>2. Less(s[(i + 1) + 1], s[i + 1])
    BY <1>7, <2>1
  <2> QED
    BY <1>3, <2>1, <2>2
<1>10. Head(s) = s[1] /\ Head(Tail(s)) = Tail(s)[1] /\ Tail(s)[1] = s[1 + 1]
  BY <1>1, <1>3, <1>4, <1>5
<1>11. Less(Head(Tail(s)), Head(s))
  BY <1>4, <1>7, <1>10
<1>12. Descends(Tail(s), b, last)
  BY <1>3, <1>5, <1>8, <1>9 DEF Descends
<1> QED
  BY <1>11, <1>12

-----------------------------------------------------------------------------
(* What a cover holds: ModelsTakeTurns *)

\* The run is the cover's: it starts and ends while the cover separates.
Running == {"model", "attempt", "combine", "cleanup", "separated"}
CoverFields ==
  cover = [at |-> cover.at, request |-> cover.request, method |-> cover.method, device |-> cover.device,
           stems |-> cover.stems, curve |-> cover.curve, decision |-> cover.decision, out |-> cover.out,
           fed |-> cover.fed, error |-> cover.error, scores |-> cover.scores, result |-> cover.result,
           why |-> cover.why]
SepFields ==
  sep = [at |-> sep.at, private |-> sep.private, profile |-> sep.profile, todo |-> sep.todo,
         rungs |-> sep.rungs, used |-> sep.used, results |-> sep.results, parts |-> sep.parts, steps |-> sep.steps, why |-> sep.why]
SepWithin == sep.at \in Running => cover.at = "separate"
Idle      == cover.at = "idle" => cover = NoCover /\ sep = NoRun
\* A separator is called for an attempt or a cleanup pass, and an attempt that
\* asks for less finds nothing in memory.
CallKept ==
  /\ call \in {"none", "loading", "working"}
  /\ call # "none" => sep.at = "attempt" \/ (sep.at = "cleanup" /\ sep.steps # {})
  /\ sep.at = "attempt" /\ sep.used /\ call # "working" => loaded = Nothing
\* Why a separation may end with a model in memory.
Left == {"raised", "cancelled"}
\* Of the voice and the pitch models, one; and none beside a separation model.
HeldAlone ==
  /\ held # {} => cover.at \in {"analyze", "convert", "measure"} /\ \E h : held = {h}
  /\ loaded # Nothing =>
       \/ cover.at = "separate" /\ sep.at \notin {"idle", "separated"} /\ (sep.at = "failed" => sep.why \in Left)
       \/ cover.at = "failed" /\ cover.why \in Left
Lone == CoverFields /\ SepFields /\ SepWithin /\ Idle /\ CallKept /\ HeldAlone

\* A cover that failed is a new one but for the reason.
LEMMA Failing ==
  ASSUME NEW w, CoverFails(w)
  PROVE  CoverFields' /\ cover'.at = "failed" /\ cover'.stems = <<>> /\ cover'.result = <<>> /\ cover'.out = <<>>
         /\ cover'.device = "cpu" /\ cover'.why = w
BY DEF CoverFails, NoCover, CoverFields

\* A run that failed is a new one but for the reason.
LEMMA RunFailing ==
  ASSUME NEW w, Fails(w)
  PROVE  SepFields' /\ sep'.at = "failed" /\ sep'.why = w /\ sep'.parts = <<>> /\ sep'.results = {}
BY DEF Fails, NoRun, SepFields

\* It begins so.
LEMMA InitLone == Init => Lone
<1>1. SUFFICES ASSUME Init PROVE Lone
  OBVIOUS
<1>2. cover = NoCover /\ sep = NoRun /\ held = {} /\ loaded = Nothing /\ call = "none"
  BY <1>1 DEF Init, SepInit
<1>3. CoverFields
  BY <1>2 DEF CoverFields, NoCover
<1>4. SepFields
  BY <1>2 DEF SepFields, NoRun
<1>5. sep.at = "idle"
  BY <1>2 DEF NoRun
<1>6. SepWithin
  BY <1>5 DEF SepWithin, Running
<1>7. CallKept
  BY <1>2, <1>5 DEF CallKept
<1> QED
  BY <1>2, <1>3, <1>4, <1>6, <1>7 DEF Lone, Idle, HeldAlone

\* A step of a run: it goes on or fails, and nothing stays in memory when it is
\* separated, or when it fails for a reason of the models' own.
LEMMA RunStep ==
  ASSUME SepFields, CallKept, Separating
  PROVE  /\ SepFields' /\ UNCHANGED <<evidence, present>> /\ sep.at \in Running
         /\ sep'.at # "idle" /\ (sep'.at = "separated" => loaded' = Nothing)
         /\ sep'.at = "failed" /\ loaded' # Nothing => sep'.why \in Left
         /\ CallKept'
<1> DEFINE Good == /\ SepFields' /\ UNCHANGED <<evidence, present>> /\ sep.at \in Running
                   /\ sep'.at # "idle" /\ (sep'.at = "separated" => loaded' = Nothing)
                   /\ sep'.at = "failed" /\ loaded' # Nothing => sep'.why \in Left
                   /\ CallKept'
<1>0. SUFFICES Good
  OBVIOUS
<1>1. ASSUME NEW f \in FreeMemory, Route(f) PROVE Good
  <2>1. sep.at = "model" /\ call' = call /\ loaded' = loaded /\ UNCHANGED <<evidence, present>>
    BY <1>1 DEF Route
  <2>2. PICK p : sep' = [sep EXCEPT !.at = "attempt", !.rungs = p, !.used = FALSE]
    BY <1>1 DEF Route
  <2>3. SepFields' /\ sep'.at = "attempt" /\ sep'.used = FALSE
    BY <2>2 DEF SepFields
  <2>4. call = "none"
    BY <2>1 DEF CallKept
  <2>5. CallKept'
    BY <2>1, <2>3, <2>4 DEF CallKept
  <2> QED
    BY <2>1, <2>3, <2>5 DEF Running
<1>2. ASSUME NEW w, Fails(w), call' = "none", sep.at \in Running, UNCHANGED <<evidence, present>>,
             loaded' = Nothing \/ w \in Left
      PROVE  Good
  <2>1. SepFields' /\ sep'.at = "failed" /\ sep'.why = w
    BY <1>2, RunFailing
  <2>2. CallKept'
    BY <1>2, <2>1 DEF CallKept
  <2> QED
    BY <1>2, <2>1, <2>2
<1>3. CASE AttemptSucceeds
  <2>1. PICK parts : sep' = [sep EXCEPT !.at = IF Len(sep.todo) = 1 THEN "combine" ELSE "model",
                          !.todo = Tail(@), !.rungs = <<>>, !.results = @ \cup {parts}]
    BY <1>3 DEF AttemptSucceeds
  <2>2. SepFields'
    BY <2>1 DEF SepFields
  <2>3. sep'.at \in {"combine", "model"}
    BY <2>1 DEF SepFields
  <2>4. sep.at = "attempt" /\ call' = "none" /\ UNCHANGED <<evidence, present>>
    BY <1>3 DEF AttemptSucceeds
  <2>5. CallKept'
    BY <2>3, <2>4 DEF CallKept
  <2> QED
    BY <2>2, <2>3, <2>4, <2>5 DEF Running
<1>4. CASE AttemptRunsOut
  <2>1. sep.at = "attempt" /\ call' = "none" /\ loaded' = Nothing /\ UNCHANGED <<evidence, present>>
    BY <1>4 DEF AttemptRunsOut, RunsOut
  <2>2. CASE Fails("GPU_OOM")
    BY <1>2, <2>1, <2>2 DEF Running
  <2>3. CASE sep' = [sep EXCEPT !.rungs = Tail(@), !.used = TRUE]
    <3>1. SepFields' /\ sep'.at = sep.at
      BY <2>3 DEF SepFields
    <3>2. CallKept'
      BY <2>1 DEF CallKept
    <3> QED
      BY <2>1, <3>1, <3>2 DEF Running
  <2> QED
    BY <1>4, <2>2, <2>3 DEF AttemptRunsOut, RunsOut
<1>5. CASE AttemptFails
  BY <1>2, <1>5 DEF AttemptFails, Running
<1>6. CASE Combine
  <2> DEFINE combined == IF Cardinality(sep.results) > 1 THEN CombineStems(sep.results)
                         ELSE CHOOSE r \in sep.results : TRUE
             parts == [k \in DOMAIN combined |-> FitLength(combined[k], Mix.frames)]
  <2>1. sep.at = "combine" /\ loaded' = Nothing /\ call' = call /\ UNCHANGED <<evidence, present>>
    BY <1>6 DEF Combine
  <2>2. \/ Fails("NO_VOCALS")
        \/ sep' = [sep EXCEPT !.at = "cleanup", !.results = {}, !.parts = parts,
                             !.steps = IF "vocals" \in DOMAIN parts THEN @ ELSE {}]
    BY <1>6 DEF Combine
  <2> HIDE DEF parts
  <2>3. call' = "none"
    BY <2>1 DEF CallKept
  <2>4. CASE Fails("NO_VOCALS")
    BY <1>2, <2>1, <2>3, <2>4 DEF Running
  <2>5. CASE sep' = [sep EXCEPT !.at = "cleanup", !.results = {}, !.parts = parts,
                             !.steps = IF "vocals" \in DOMAIN parts THEN @ ELSE {}]
    <3>1. SepFields' /\ sep'.at = "cleanup"
      BY <2>5 DEF SepFields
    <3>2. CallKept'
      BY <2>3, <3>1 DEF CallKept
    <3> QED
      BY <2>1, <3>1, <3>2 DEF Running
  <2> QED
    BY <2>2, <2>4, <2>5
<1>7. ASSUME NEW parts, StepOver(parts), sep.at = "cleanup", call' = "none", UNCHANGED <<evidence, present>>
      PROVE  Good
  <2>1. SepFields' /\ sep'.at = "cleanup"
    BY <1>7 DEF StepOver, SepFields
  <2>2. CallKept'
    BY <1>7, <2>1 DEF CallKept
  <2> QED
    BY <1>7, <2>1, <2>2 DEF Running
<1> HIDE DEF Good
<1>8. CASE CleanupSkips
  BY <1>7, <1>8 DEF CleanupSkips
<1>9. CASE CleanupRuns
  <2>1. \E parts : StepOver(parts)
    BY <1>9 DEF CleanupRuns
  <2>2. sep.at = "cleanup" /\ call' = "none" /\ UNCHANGED <<evidence, present>>
    BY <1>9 DEF CleanupRuns, Runnable
  <2> QED
    BY <1>7, <2>1, <2>2
<1>10. CASE CleanupFails
  BY <1>7, <1>10 DEF CleanupFails, Runnable
<1>11. CASE CleanupRaises
  BY <1>2, <1>11 DEF CleanupRaises, Runnable, Running, Left
<1>12. CASE CleanupEnds
  <2>1. sep' = [NoRun EXCEPT !.at = "separated", !.parts = sep.parts]
    BY <1>12 DEF CleanupEnds
  <2>2. SepFields' /\ sep'.at = "separated"
    BY <2>1 DEF NoRun, SepFields
  <2>3. /\ sep.at = "cleanup" /\ sep.steps = {} /\ loaded' = Nothing /\ call' = call
        /\ UNCHANGED <<evidence, present>>
    BY <1>12 DEF CleanupEnds
  <2>4. call' = "none"
    BY <2>3 DEF CallKept
  <2>5. CallKept'
    BY <2>2, <2>4 DEF CallKept
  <2> QED
    BY <2>2, <2>3, <2>5 DEF Good, Running
<1>13. CASE Loads
  <2>1. sep.at = "attempt" \/ (sep.at = "cleanup" /\ sep.steps # {})
    BY <1>13 DEF Loads, Runnable
  <2>2. call = "none" /\ call' = "loading" /\ UNCHANGED <<evidence, present, sep, loaded>>
    BY <1>13 DEF Loads
  <2>3. CallKept'
    BY <2>1, <2>2 DEF CallKept
  <2> QED
    BY <2>1, <2>2, <2>3 DEF Good, Running, SepFields
<1>14. CASE HandsOver
  <2>1. call = "loading" /\ call' = "working" /\ UNCHANGED <<evidence, present, sep>>
    BY <1>14 DEF HandsOver
  <2>2. sep.at = "attempt" \/ (sep.at = "cleanup" /\ sep.steps # {})
    BY <2>1 DEF CallKept
  <2>3. CallKept'
    BY <2>1, <2>2 DEF CallKept
  <2> QED
    BY <2>1, <2>2, <2>3 DEF Good, Running, SepFields
<1>15. CASE Interrupted
  <2>1. sep.at \in Running /\ Fails("cancelled") /\ call' = "none" /\ UNCHANGED <<evidence, present>>
    BY <1>15 DEF Interrupted, Runnable, Running
  <2> QED
    BY <1>2, <2>1 DEF Left
<1> QED
  BY <1>1, <1>3, <1>4, <1>5, <1>6, <1>8, <1>9, <1>10, <1>11, <1>12, <1>13, <1>14, <1>15 DEF Separating

\* What is asked for.
Asking == (\E r \in Requests : Request(r)) \/ (\E a \in Arguments : Command(a))
\* A step of a cover that has its stems.
Working ==
  \/ ExtractorLoads \/ ExtractorFails \/ (\E raw \in RawCurves : Extract(raw) \/ Profile(raw))
  \/ Decide \/ Advise \/ VoiceLoads \/ VoiceFails
  \/ (\E plan \in ChunkPlans, drift \in -1..1 : Convert(plan, drift))
  \/ (\E off \in -1..1 : Measure(off))
  \/ (\E returned \in {Mix.frames, Mix.frames - 1}, score \in Scores, louder \in Loudness :
        Mixed(returned, score, louder))
  \/ MixFails \/ Deliver

\* A request is refused or begun, and loads nothing.
LEMMA AskingStep ==
  ASSUME Asking
  PROVE  /\ UNCHANGED <<sepVars, voice, held, report>> /\ cover.at = "idle" /\ CoverFields'
         /\ cover'.at \in {"separate", "analyze", "failed"}
         /\ cover'.device \in {"cpu", DeviceForImplementation(matrix, "f0", "torchfcpe", present)}
         /\ cover'.at = "separate" => cover'.request.level \in QualityLevel
<1> DEFINE Good == /\ UNCHANGED <<sepVars, voice, held, report>> /\ cover.at = "idle" /\ CoverFields'
                   /\ cover'.at \in {"separate", "analyze", "failed"}
                   /\ cover'.device \in {"cpu", DeviceForImplementation(matrix, "f0", "torchfcpe", present)}
                   /\ cover'.at = "separate" => cover'.request.level \in QualityLevel
<1>0. \A m : CliRoute(m).device \in {"cpu", DeviceForImplementation(matrix, "f0", "torchfcpe", present)}
  BY DEF CliRoute
<1>1. ASSUME NEW r, r.level \in QualityLevel, Request(r) PROVE Good
  <2>1. UNCHANGED <<sepVars, voice, held, report>> /\ cover.at = "idle"
    BY <1>1 DEF Request, At
  <2>2. Begin(r) \/ \E w : CoverFails(w)
    BY <1>1 DEF Request
  <2>3. CASE Begin(r)
    <3>1. cover'.at = "separate" /\ cover'.request = r /\ cover'.device = AnalysisRoute(r).device /\ CoverFields'
      BY <2>3 DEF Begin, NoCover, CoverFields
    <3>2. AnalysisRoute(r).device \in {"cpu", DeviceForImplementation(matrix, "f0", "torchfcpe", present)}
      BY <1>0 DEF AnalysisRoute
    <3> QED
      BY <1>1, <2>1, <3>1, <3>2
  <2>4. CASE \E w : CoverFails(w)
    BY <2>1, <2>4, Failing
  <2> QED
    BY <2>2, <2>3, <2>4
<1>2. ASSUME NEW a \in Arguments, SeparateCommand(a) PROVE Good
  <2>1. a.quality \in QualityLevel
    BY ArgumentsAssumption
  <2>2. UNCHANGED <<sepVars, voice, held, report>> /\ cover.at = "idle"
    BY <1>2 DEF SeparateCommand, At
  <2>3. CoverFields' /\ cover'.at = "separate" /\ cover'.device = "cpu" /\ cover'.request.level = a.quality
    BY <1>2 DEF SeparateCommand, NoCover, CoverFields
  <2> QED
    BY <2>1, <2>2, <2>3
<1>3. ASSUME NEW a, Listen(a) PROVE Good
  <2>1. UNCHANGED <<sepVars, voice, held, report>> /\ cover.at = "idle"
    BY <1>3 DEF Listen, At
  <2>2. CoverFields' /\ cover'.at = "analyze" /\ cover'.device = CliRoute(a.method).device
    BY <1>3 DEF Listen, NoCover, CoverFields
  <2> QED
    BY <1>0, <2>1, <2>2
<1>4. ASSUME NEW a \in Arguments, ConvertCommand(a) PROVE Good
  <2>1. PICK r : r.level = a.quality /\ Request(r)
    BY <1>4 DEF ConvertCommand
  <2>2. r.level \in QualityLevel
    BY <2>1, ArgumentsAssumption
  <2> QED
    BY <1>1, <2>1, <2>2
<1>5. CASE \E r \in Requests : Request(r)
  <2>1. PICK r \in Requests : Request(r)
    BY <1>5
  <2>2. r.level \in QualityLevel
    BY RequestsAssumption
  <2> QED
    BY <1>1, <2>1, <2>2
<1>6. CASE \E a \in Arguments : Command(a)
  <2>1. PICK a \in Arguments : Command(a)
    BY <1>6
  <2>2. ConvertCommand(a) \/ SeparateCommand(a) \/ Listen(a)
    BY <2>1 DEF Command, ProfileCommand, PitchCommand
  <2> QED
    BY <1>2, <1>3, <1>4, <2>2
<1> QED
  BY <1>5, <1>6 DEF Asking

\* A variant that is mixed is followed by the next, or delivered.
LEMMA MixedStep ==
  ASSUME NEW returned, NEW score, NEW louder, Mixed(returned, score, louder)
  PROVE  \/ CoverFails("TypeError")
         \/ \E at \in {"decide", "deliver"} : \E s, r :
              cover' = [cover EXCEPT !.at = at, !.scores = s, !.out = <<>>, !.fed = <<>>, !.error = {}, !.result = r]
<1> DEFINE best  == cover.decision.best
           moved == ShiftPlayback(Playback, Split, Stems, best.remainder, returned)
           vocal == RepairArtifacts([ToMono(cover.stems["vocals"]) EXCEPT !.frames = Len(cover.out)])
           room  == ApplyAmbience(vocal, Layer, Config.ambience_strategy)
           scores == Append(cover.scores, score)
           at == IF Len(scores) < Variants THEN "decide" ELSE "deliver"
           told == [semitones |-> best.semitones, remainder |-> best.remainder,
                    told |-> ExplainDecision(cover.decision, voice.profile.quality_vs_shift # {}),
                    correction |-> CorrectGlobalPitch(cover.error), variant |-> Len(scores),
                    layer |-> OriginalLayerGain(Layer, Config.ambience_strategy),
                    retrieved |-> Retrieved(LoadIndex(voice.index, voice.faiss), Config),
                    gain |-> MatchEnvelope(0, louder, Config.rms_mix_rate)]
           result == IF Winner(scores) = Len(scores) THEN With(told, MixAndMaster(room, moved, returned)) ELSE cover.result
<1>1. CASE moved = Refused
  BY <1>1 DEF Mixed
<1>2. CASE moved # Refused
  <2>1. cover' = [cover EXCEPT !.at = at, !.scores = scores, !.out = <<>>, !.fed = <<>>, !.error = {}, !.result = result]
    BY <1>2 DEF Mixed
  <2>2. at \in {"decide", "deliver"}
    OBVIOUS
  <2> HIDE DEF at, scores, result
  <2> QED
    BY <2>1, <2>2
<1> QED
  BY <1>1, <1>2

\* What was asked for is worked on as it was begun, or no more.
Onward ==
  \/ cover'.request = cover.request /\ cover'.device = cover.device /\ cover'.stems = cover.stems
  \/ cover'.at = "failed" /\ cover'.device = "cpu" /\ cover'.stems = <<>>

\* A step that works on the stems keeps one model or none.
LEMMA WorkingStep ==
  ASSUME CoverFields, HeldAlone, Working
  PROVE  /\ UNCHANGED <<sepVars, voice, report>> /\ CoverFields'
         /\ cover.at \in {"analyze", "decide", "convert", "measure", "mix", "deliver"}
         /\ cover'.at \notin {"idle", "separate"}
         /\ held' # {} => cover'.at \in {"analyze", "convert", "measure"} /\ \E h : held' = {h}
         /\ \A h \in held' : h \in held \/ h = F0Model \/ h.component = "conversion"
         /\ Onward
<1> DEFINE Good == /\ UNCHANGED <<sepVars, voice, report>> /\ CoverFields'
                   /\ cover.at \in {"analyze", "decide", "convert", "measure", "mix", "deliver"}
                   /\ cover'.at \notin {"idle", "separate"}
                   /\ held' # {} => cover'.at \in {"analyze", "convert", "measure"} /\ \E h : held' = {h}
                   /\ \A h \in held' : h \in held \/ h = F0Model \/ h.component = "conversion"
                   /\ Onward
<1>1. CASE ExtractorLoads
  <2>1. UNCHANGED <<sepVars, voice, cover, report>> /\ cover.at \in {"analyze", "measure"} /\ held' = {F0Model}
    BY <1>1 DEF ExtractorLoads
  <2> QED
    BY <2>1 DEF CoverFields, Onward
<1>2. CASE ExtractorFails
  <2>1. UNCHANGED <<sepVars, voice, report>> /\ cover.at \in {"analyze", "measure"} /\ held' = {} /\ CoverFails("f0")
    BY <1>2 DEF ExtractorFails
  <2> QED
    BY <2>1, Failing DEF Onward
<1>3. ASSUME NEW raw, Extract(raw) PROVE Good
  <2>1. UNCHANGED <<sepVars, voice, report>> /\ cover.at = "analyze" /\ held' = {}
    BY <1>3 DEF Extract, At
  <2>2. PICK c : cover' = [cover EXCEPT !.at = "decide", !.curve = c]
    BY <1>3 DEF Extract
  <2>3. CoverFields' /\ cover'.at = "decide" /\ Onward
    BY <2>2 DEF CoverFields, Onward
  <2> QED
    BY <2>1, <2>3
<1>4. ASSUME NEW raw, Profile(raw) PROVE Good
  <2>1. UNCHANGED <<sepVars, voice, report>> /\ cover.at = "analyze" /\ held' = {}
    BY <1>4 DEF Profile, At
  <2>2. CoverFails("no pitch") \/ \E p : cover' = [cover EXCEPT !.at = "profiled", !.curve = raw, !.result = [profile |-> p]]
    BY <1>4 DEF Profile
  <2>3. CoverFields' /\ cover'.at \in {"profiled", "failed"} /\ Onward
    BY <2>2, Failing DEF CoverFields, Onward
  <2> QED
    BY <2>1, <2>3
<1>5. CASE Decide
  <2>1. UNCHANGED <<sepVars, voice, held, report>> /\ cover.at = "decide"
    BY <1>5 DEF Decide, At
  <2>2. CoverFails("no pitch") \/ \E d : cover' = [cover EXCEPT !.at = "convert", !.decision = d]
    BY <1>5 DEF Decide
  <2>3. CoverFields' /\ cover'.at \in {"convert", "failed"} /\ Onward
    BY <2>2, Failing DEF CoverFields, Onward
  <2> QED
    BY <2>1, <2>3 DEF HeldAlone
<1>6. CASE Advise
  <2>1. UNCHANGED <<sepVars, voice, held, report>> /\ cover.at = "decide"
    BY <1>6 DEF Advise, At
  <2>2. CoverFails("no pitch") \/ \E d, r : cover' = [cover EXCEPT !.at = "advised", !.decision = d, !.result = r]
    BY <1>6 DEF Advise
  <2>3. CoverFields' /\ cover'.at \in {"advised", "failed"} /\ Onward
    BY <2>2, Failing DEF CoverFields, Onward
  <2> QED
    BY <2>1, <2>3 DEF HeldAlone
<1>7. CASE VoiceLoads
  <2>1. UNCHANGED <<sepVars, voice, cover, report>> /\ cover.at = "convert"
    BY <1>7 DEF VoiceLoads, At
  <2>2. PICK b : held' = {[component |-> "conversion", implementation |-> "rvc", backend |-> b]}
    BY <1>7 DEF VoiceLoads
  <2>3. CoverFields' /\ Onward
    BY <2>1 DEF CoverFields, Onward
  <2>4. \A h \in held' : h.component = "conversion"
    BY <2>2
  <2> QED
    BY <2>1, <2>2, <2>3, <2>4
<1>8. CASE VoiceFails
  <2>1. UNCHANGED <<sepVars, voice, report>> /\ cover.at = "convert" /\ held' = {} /\ CoverFails("conversion")
    BY <1>8 DEF VoiceFails, At
  <2> QED
    BY <2>1, Failing DEF Onward
<1>9. ASSUME NEW plan, NEW drift, Convert(plan, drift) PROVE Good
  <2>1. UNCHANGED <<sepVars, voice, report>> /\ cover.at = "convert" /\ held' = {}
    BY <1>9 DEF Convert, At
  <2>2. PICK o, f : cover' = [cover EXCEPT !.at = "measure", !.out = o, !.fed = f]
    BY <1>9 DEF Convert
  <2>3. CoverFields' /\ cover'.at = "measure" /\ Onward
    BY <2>2 DEF CoverFields, Onward
  <2> QED
    BY <2>1, <2>3
<1>10. ASSUME NEW off, Measure(off) PROVE Good
  <2>1. UNCHANGED <<sepVars, voice, report>> /\ cover.at = "measure" /\ held' = {}
    BY <1>10 DEF Measure, At
  <2>2. PICK e : cover' = [cover EXCEPT !.at = "mix", !.error = e]
    BY <1>10 DEF Measure
  <2>3. CoverFields' /\ cover'.at = "mix" /\ Onward
    BY <2>2 DEF CoverFields, Onward
  <2> QED
    BY <2>1, <2>3
<1>11. ASSUME NEW returned, NEW score, NEW louder, Mixed(returned, score, louder) PROVE Good
  <2>1. UNCHANGED <<sepVars, voice, held, report>> /\ cover.at = "mix"
    BY <1>11 DEF Mixed, At
  <2>2. \/ CoverFails("TypeError")
        \/ \E at \in {"decide", "deliver"} : \E s, r :
             cover' = [cover EXCEPT !.at = at, !.scores = s, !.out = <<>>, !.fed = <<>>, !.error = {}, !.result = r]
    BY <1>11, MixedStep
  <2>3. CoverFields' /\ cover'.at \in {"decide", "deliver", "failed"} /\ Onward
    BY <2>2, Failing DEF CoverFields, Onward
  <2> QED
    BY <2>1, <2>3 DEF HeldAlone
<1>12. CASE MixFails
  <2>1. UNCHANGED <<sepVars, voice, held, report>> /\ cover.at = "mix" /\ CoverFails("ffmpeg")
    BY <1>12 DEF MixFails, At
  <2> QED
    BY <2>1, Failing DEF HeldAlone, Onward
<1>13. CASE Deliver
  <2>1. UNCHANGED <<sepVars, voice, held, report>> /\ cover.at = "deliver"
    BY <1>13 DEF Deliver, At
  <2>2. PICK r : cover' = [cover EXCEPT !.at = "delivered", !.result = r]
    BY <1>13 DEF Deliver
  <2>3. CoverFields' /\ cover'.at = "delivered" /\ Onward
    BY <2>2 DEF CoverFields, Onward
  <2> QED
    BY <2>1, <2>3 DEF HeldAlone
<1> QED
  BY <1>1, <1>2, <1>3, <1>4, <1>5, <1>6, <1>7, <1>8, <1>9, <1>10, <1>11, <1>12, <1>13 DEF Working

\* Every step is one that asks, separates, works, or looks at something else.
LEMMA Steps ==
  ASSUME Next
  PROVE  Asking \/ SeparateStarts \/ SeparateRuns \/ SeparateEnds \/ Working \/ VerifyBackends
         \/ \E s \in Samples : Analyze(s)
BY DEF Next, Asking, Working

\* The separation of a cover starts, or fails at once.
LEMMA StartStep ==
  ASSUME SeparateStarts
  PROVE  /\ UNCHANGED <<evidence, present, call, loaded, voice, cover, held, report>> /\ cover.at = "separate"
         /\ sep.at = "idle" /\ SepFields' /\ sep'.at \in {"model", "failed"}
<1>1. /\ UNCHANGED <<evidence, present, call, loaded, voice, cover, held, report>>
      /\ cover.at = "separate" /\ sep.at = "idle"
  BY DEF SeparateStarts, Start, StartFails, At
<1>2. ASSUME NEW l, NEW p, NEW s, Start(l, p, s) PROVE SepFields' /\ sep'.at \in {"model", "failed"}
  <2>1. CASE Fails("MODEL_MISSING")
    BY <2>1, RunFailing
  <2>2. CASE sep' = [NoRun EXCEPT !.at = "model", !.private = p, !.profile = PROFILES[l],
                                  !.todo = ResolveModels(PROFILES[l], p), !.steps = s]
    BY <2>2 DEF NoRun, SepFields
  <2> QED
    BY <1>2, <2>1, <2>2 DEF Start
<1>3. CASE StartFails
  <2>1. \E w : Fails(w)
    BY <1>3 DEF StartFails
  <2> QED
    BY <1>1, <2>1, RunFailing
<1>4. StartFails \/ Start(cover.request.level, cover.request.private, cover.request.cleanup)
  BY DEF SeparateStarts
<1> QED
  BY <1>1, <1>2, <1>3, <1>4

\* A separation hands over what it has, or the cover fails with it.
LEMMA EndStep ==
  ASSUME CoverFields, SeparateEnds
  PROVE  /\ UNCHANGED <<evidence, present, call, loaded, voice, held, report>> /\ cover.at = "separate"
         /\ sep.at \in {"separated", "failed"} /\ sep'.at = "over" /\ SepFields' /\ CoverFields'
         /\ cover'.at \in {"failed", "written", "analyze"}
         /\ (sep.at = "failed" => cover'.at = "failed" /\ cover'.why = sep.why)
         /\ cover'.device \in {cover.device, "cpu"}
<1>1. /\ UNCHANGED <<evidence, present, call, loaded, voice, held, report>> /\ cover.at = "separate"
      /\ sep.at \in {"separated", "failed"} /\ sep' = [NoRun EXCEPT !.at = "over"]
  BY DEF SeparateEnds, At
<1>2. sep'.at = "over" /\ SepFields'
  BY <1>1 DEF NoRun, SepFields
<1>3. /\ \/ \E w : CoverFails(w)
         \/ \E at \in {"written", "analyze"} : cover' = [cover EXCEPT !.at = at, !.stems = sep.parts]
      /\ sep.at = "failed" => CoverFails(sep.why)
  BY DEF SeparateEnds
<1>4. ASSUME NEW w, CoverFails(w)
      PROVE  CoverFields' /\ cover'.at = "failed" /\ cover'.device = "cpu" /\ cover'.why = w
  BY <1>4, Failing
<1>5. ASSUME NEW at \in {"written", "analyze"}, cover' = [cover EXCEPT !.at = at, !.stems = sep.parts]
      PROVE  CoverFields' /\ cover'.at = at /\ cover'.device = cover.device
  BY <1>5 DEF CoverFields
<1> QED
  BY <1>1, <1>2, <1>3, <1>4, <1>5

\* What taking turns rests on is kept.
LEMMA LoneStep == Lone /\ [Next]_vars => Lone'
<1>1. SUFFICES ASSUME Lone, [Next]_vars PROVE Lone'
  OBVIOUS
<1>2. CoverFields /\ SepFields /\ SepWithin /\ Idle /\ CallKept /\ HeldAlone
  BY <1>1 DEF Lone
<1>3. CASE UNCHANGED vars
  BY <1>2, <1>3 DEF vars, sepVars, Lone, CoverFields, SepFields, SepWithin, Idle, CallKept, HeldAlone
<1>4. CASE Asking
  <2>1. /\ UNCHANGED <<sepVars, voice, held, report>> /\ cover.at = "idle" /\ CoverFields'
        /\ cover'.at \in {"separate", "analyze", "failed"}
    BY <1>4, AskingStep
  <2>2. held = {} /\ loaded = Nothing
    BY <1>2, <2>1 DEF HeldAlone
  <2>3. sep.at = "idle" /\ SepFields'
    <3>1. sep = NoRun /\ sep' = sep
      BY <1>2, <2>1 DEF Idle, sepVars
    <3> QED
      BY <3>1 DEF NoRun, SepFields
  <2>4. SepWithin' /\ Idle' /\ HeldAlone'
    BY <2>1, <2>2, <2>3 DEF sepVars, SepWithin, Running, Idle, HeldAlone
  <2>5. CallKept'
    BY <1>2, <2>1 DEF sepVars, CallKept
  <2> QED
    BY <2>1, <2>3, <2>4, <2>5 DEF Lone
<1>5. CASE SeparateStarts
  <2>1. /\ UNCHANGED <<evidence, present, call, loaded, voice, cover, held, report>> /\ cover.at = "separate"
        /\ sep.at = "idle" /\ SepFields' /\ sep'.at \in {"model", "failed"}
    BY <1>5, StartStep
  <2>2. loaded = Nothing /\ held = {} /\ call = "none"
    BY <1>2, <2>1 DEF HeldAlone, CallKept
  <2>3. CoverFields' /\ SepWithin' /\ Idle' /\ HeldAlone'
    BY <1>2, <2>1, <2>2 DEF CoverFields, SepWithin, Idle, HeldAlone
  <2>4. CallKept'
    BY <2>1, <2>2 DEF CallKept
  <2> QED
    BY <2>1, <2>3, <2>4 DEF Lone
<1>6. CASE SeparateRuns
  <2>1. cover.at = "separate" /\ Separating /\ UNCHANGED <<voice, cover, held, report>>
    BY <1>6 DEF SeparateRuns, At
  <2>2. /\ SepFields' /\ CallKept' /\ sep'.at # "idle" /\ (sep'.at = "separated" => loaded' = Nothing)
        /\ sep'.at = "failed" /\ loaded' # Nothing => sep'.why \in Left
    BY <1>2, <2>1, RunStep
  <2>3. held = {}
    BY <1>2, <2>1 DEF HeldAlone
  <2>4. CoverFields' /\ SepWithin' /\ Idle' /\ HeldAlone'
    BY <1>2, <2>1, <2>2, <2>3 DEF CoverFields, SepWithin, Idle, HeldAlone
  <2> QED
    BY <2>2, <2>4 DEF Lone
<1>7. CASE SeparateEnds
  <2>1. /\ UNCHANGED <<evidence, present, call, loaded, voice, held, report>> /\ cover.at = "separate"
        /\ sep.at \in {"separated", "failed"} /\ sep'.at = "over" /\ SepFields' /\ CoverFields'
        /\ cover'.at \in {"failed", "written", "analyze"} 
        /\ (sep.at = "failed" => cover'.at = "failed" /\ cover'.why = sep.why)
    BY <1>2, <1>7, EndStep
  <2>2. held = {} /\ call = "none"
    BY <1>2, <2>1 DEF HeldAlone, CallKept
  <2>3. loaded # Nothing => sep.at = "failed" /\ sep.why \in Left
    BY <1>2, <2>1 DEF HeldAlone
  <2>4. SepWithin' /\ Idle' /\ HeldAlone'
    BY <2>1, <2>2, <2>3 DEF SepWithin, Running, Idle, HeldAlone
  <2>5. CallKept'
    BY <2>1, <2>2 DEF CallKept
  <2> QED
    BY <2>1, <2>4, <2>5 DEF Lone
<1>8. CASE Working
  <2>1. /\ UNCHANGED <<sepVars, voice, report>> /\ CoverFields'
        /\ cover.at \in {"analyze", "decide", "convert", "measure", "mix", "deliver"}
        /\ cover'.at \notin {"idle", "separate"}
        /\ held' # {} => cover'.at \in {"analyze", "convert", "measure"} /\ \E h : held' = {h}
    BY <1>2, <1>8, WorkingStep
  <2>2. loaded = Nothing
    BY <1>2, <2>1 DEF HeldAlone
  <2>3. sep.at \notin Running /\ SepFields'
    BY <1>2, <2>1 DEF SepWithin, sepVars, SepFields
  <2>4. SepWithin' /\ Idle' /\ HeldAlone'
    BY <2>1, <2>2, <2>3 DEF sepVars, SepWithin, Idle, HeldAlone
  <2>5. CallKept'
    BY <1>2, <2>1 DEF sepVars, CallKept
  <2> QED
    BY <2>1, <2>3, <2>4, <2>5 DEF Lone
<1>9. CASE VerifyBackends
  <2>1. UNCHANGED <<sep, call, loaded, cover, held>>
    BY <1>9 DEF VerifyBackends, Verify, VerifyTorn
  <2> QED
    BY <1>2, <2>1 DEF Lone, CoverFields, SepFields, SepWithin, Idle, CallKept, HeldAlone
<1>10. ASSUME NEW s, Analyze(s) PROVE Lone'
  <2>1. UNCHANGED <<sep, call, loaded, cover, held>>
    BY <1>10 DEF Analyze, sepVars
  <2> QED
    BY <1>2, <2>1 DEF Lone, CoverFields, SepFields, SepWithin, Idle, CallKept, HeldAlone
<1>11. Next \/ UNCHANGED vars
  BY <1>1
<1> QED
  BY <1>3, <1>4, <1>5, <1>6, <1>7, <1>8, <1>9, <1>10, <1>11, Steps

\* What a cover holds is so always.
LEMMA LoneAlways == Spec => []Lone
<1> QED
  BY InitLone, LoneStep, PTL DEF Spec

\* ModelsTakeTurns: whichever steps fail and in whichever order a cover is worked
\* on, a pitch model or the voice is alone in memory, a separation loads nothing
\* outside its step, and an attempt that asks for less begins with nothing loaded;
\* a separation model outlives its step only when a cleanup pass or the progress
\* hook raised (cover.py, separation/pipeline.py, cleanup.py, oom.py).
THEOREM TakeTurns == Spec => []ModelsTakeTurns
<1>1. ASSUME Lone PROVE ModelsTakeTurns
  <2>1. SepWithin /\ CallKept /\ HeldAlone
    BY <1>1 DEF Lone
  <2>2. call # "none" => cover.at = "separate"
    BY <2>1 DEF SepWithin, CallKept, Running
  <2>3. ASSUME held # {}
        PROVE  Cardinality(held) = 1 /\ cover.at \in {"analyze", "convert", "measure"} /\ Separators = {}
    <3>1. cover.at \in {"analyze", "convert", "measure"} /\ \E h : held = {h}
      BY <2>1, <2>3 DEF HeldAlone
    <3>2. Cardinality(held) = 1
      BY <3>1, FS_Singleton
    <3>3. loaded = Nothing
      BY <2>1, <3>1 DEF HeldAlone
    <3>4. call = "none"
      BY <2>2, <3>1
    <3> QED
      BY <3>1, <3>2, <3>3, <3>4 DEF Separators
  <2>4. sep.at = "attempt" /\ sep.used /\ call # "working" => loaded = Nothing
    BY <2>1 DEF CallKept
  <2>5. loaded # Nothing => cover.at = "separate" \/ (cover.at = "failed" /\ cover.why \in {"raised", "cancelled"})
    BY <2>1 DEF HeldAlone, Left
  <2> QED
    BY <2>2, <2>3, <2>4, <2>5 DEF ModelsTakeTurns, At
<1> QED
  BY <1>1, LoneAlways, PTL

-----------------------------------------------------------------------------
(* Where models run: SeparatesOnProven *)

\* The least of some numbers.
LEMMA Least == ASSUME NEW T, T \subseteq Nat, T # {} PROVE \E m \in T : \A k \in T : m <= k
<1>1. PICK m \in T : \A k \in T : ~ (<<k, m>> \in OpToRel(<, Nat))
  BY NatLessThanWellFounded, WFMin
<1>2. \A k \in T : ~(k < m)
  BY <1>1 DEF OpToRel
<1>3. ASSUME NEW k \in T PROVE m <= k
  <2>1. k \in Nat /\ m \in Nat
    OBVIOUS
  <2> QED
    BY <1>2, <2>1
<1> QED
  BY <1>3

\* A device is chosen among those allowed, or it is the processor.
LEMMA Selected ==
  ASSUME NEW allowed, NEW there PROVE Select(allowed, there) = "cpu" \/ Select(allowed, there) \in allowed
<1> DEFINE I == {i \in 1..Len(PREFERENCE) : PREFERENCE[i] \in allowed \cap there}
<1>1. Select(allowed, there) = LET i == IF I # {} THEN Min(I) ELSE 0 IN IF i = 0 THEN "cpu" ELSE PREFERENCE[i]
  BY DEF Select, SelectInSeq
<1>2. CASE I = {}
  BY <1>1, <1>2
<1>3. CASE I # {}
  <2>1. I \subseteq Nat /\ \A i \in I : PREFERENCE[i] \in allowed
    BY DEF PREFERENCE
  <2> HIDE DEF I
  <2>2. Min(I) \in I
    BY <1>3, <2>1, Least DEF Min
  <2>3. Select(allowed, there) = "cpu" \/ Select(allowed, there) = PREFERENCE[Min(I)]
    BY <1>1
  <2> QED
    BY <2>1, <2>2, <2>3
<1> QED
  BY <1>2, <1>3

\* On record for the implementation on the device, as the matrix stands.
Proven(c, i, b) ==
  \/ b = "cpu"
  \/ Suffices(ImplementationProof(matrix[c].implementation_proofs, i, b))
  \/ c = "separation" /\ matrix[c].implementation_proofs = {} /\ Suffices(Proof(matrix[c].proofs, b))

\* A model is sent where its own evidence allows.
LEMMA DeviceProven ==
  ASSUME NEW id
  PROVE  Proven("separation", id, DeviceForModel(id)) /\ DeviceForModel(id) \in ComputeBackend
<1>1. CASE matrix["separation"].implementation_proofs # {}
  <2> DEFINE S == AllowedBackendsForImplementation(matrix["separation"], id)
  <2>1. DeviceForModel(id) = Select(S, present)
    BY <1>1 DEF DeviceForModel, DeviceForImplementation
  <2>2. \A b \in S : b \in ComputeBackend /\ Suffices(ImplementationProof(matrix["separation"].implementation_proofs, id, b))
    BY DEF AllowedBackendsForImplementation
  <2> HIDE DEF S
  <2>3. DeviceForModel(id) = "cpu" \/ DeviceForModel(id) \in S
    BY <2>1, Selected
  <2> QED
    BY <2>2, <2>3 DEF Proven, ComputeBackend
<1>2. CASE matrix["separation"].implementation_proofs = {}
  <2> DEFINE S == AllowedBackends(matrix["separation"])
  <2>1. DeviceForModel(id) = Select(S, present)
    BY <1>2 DEF DeviceForModel, DeviceFor
  <2>2. \A b \in S : b \in ComputeBackend /\ Suffices(Proof(matrix["separation"].proofs, b))
    BY DEF AllowedBackends
  <2> HIDE DEF S
  <2>3. DeviceForModel(id) = "cpu" \/ DeviceForModel(id) \in S
    BY <2>1, Selected
  <2> QED
    BY <1>2, <2>2, <2>3 DEF Proven, ComputeBackend
<1> QED
  BY <1>1, <1>2

\* So is the fast pitch model.
LEMMA F0Proven ==
  ASSUME NEW d, d \in {"cpu", DeviceForImplementation(matrix, "f0", "torchfcpe", present)}
  PROVE  Proven("f0", "torchfcpe", d)
<1> DEFINE S == AllowedBackendsForImplementation(matrix["f0"], "torchfcpe")
<1>1. DeviceForImplementation(matrix, "f0", "torchfcpe", present) = Select(S, present)
  BY DEF DeviceForImplementation
<1>2. \A b \in S : Suffices(ImplementationProof(matrix["f0"].implementation_proofs, "torchfcpe", b))
  BY DEF AllowedBackendsForImplementation
<1> HIDE DEF S
<1>3. d = "cpu" \/ d \in S
  BY <1>1, Selected
<1> QED
  BY <1>2, <1>3 DEF Proven

\* The usual segment, or less of it on a card with little memory.
LEMMA Suggested ==
  ASSUME NEW b, NEW free \in FreeMemory, NEW default \in Nat
  PROVE  SuggestedSegmentSize(b, free, default) \in Nat
<1>1. CASE b = "cpu" \/ free = Unknown
  BY <1>1 DEF SuggestedSegmentSize
<1>2. CASE ~(b = "cpu" \/ free = Unknown)
  <2> DEFINE I == {i \in 1..Len(SEGMENT_BY_MEMORY) : free >= SEGMENT_BY_MEMORY[i][1]}
  <2>1. free \in Nat
    BY <1>2, MemoryAssumption DEF Unknown
  <2>2. 5 \in I /\ I \subseteq 1..5
    BY <2>1 DEF SEGMENT_BY_MEMORY
  <2>3. SelectInSeq(SEGMENT_BY_MEMORY, LAMBDA x : free >= x[1]) = Min(I)
    <3>1. I # {}
      BY <2>2
    <3> QED
      BY <3>1 DEF SelectInSeq
  <2> HIDE DEF I
  <2>4. I # {} /\ I \subseteq Nat
    BY <2>2
  <2>5. Min(I) \in I
    BY <2>4, Least DEF Min
  <2>6. \A i \in 1..5 : SEGMENT_BY_MEMORY[i][2] \in Nat
    BY DEF SEGMENT_BY_MEMORY
  <2>7. SEGMENT_BY_MEMORY[Min(I)][2] \in Nat
    BY <2>2, <2>5, <2>6
  <2> QED
    BY <1>2, <2>3, <2>7 DEF SuggestedSegmentSize
<1> QED
  BY <1>1, <1>2

\* A ladder that ends with the smallest plan for the processor.
LadderOf(id, rungs) == \E last \in Plan : Smallest(last) /\ Descends(rungs, DeviceForModel(id), last)
Profiles == {PROFILES[l] : l \in QualityLevel}

\* The plan of a model begins such a ladder.
LEMMA Planned ==
  ASSUME NEW id, NEW free \in FreeMemory, NEW profile \in Profiles
  PROVE  LadderOf(id, PlanFor(id, free, profile))
<1> DEFINE b == DeviceForModel(id)
           plan == [segment_size |-> SuggestedSegmentSize(b, free, profile.segment_size),
                    batch_size |-> profile.batch_size, overlap |-> profile.overlap, backend |-> b]
<1>1. profile.segment_size \in Nat /\ profile.batch_size \in Nat \ {0} /\ profile.overlap \in Nat \ {0}
  BY DEF Profiles, PROFILES, QualityLevel
<1>2. b \in ComputeBackend
  BY DeviceProven
<1>3. SuggestedSegmentSize(b, free, profile.segment_size) \in Nat
  BY <1>1, Suggested
<1>4. plan \in Plan /\ plan.backend = b
  BY <1>1, <1>2, <1>3 DEF Plan
<1>5. PlanFor(id, free, profile) = OomLadder(plan, TRUE)
  BY DEF PlanFor
<1> HIDE DEF plan
<1> QED
  BY <1>4, <1>5, LadderDescends DEF LadderOf

\* Where the models of a run go, what a cover was begun with, and what is in memory.
Asked_for  == cover.at = "separate" => cover.request.level \in QualityLevel
Rungs      == sep.at = "attempt" => LadderOf(Head(sep.todo), sep.rungs)
LoadedThere == loaded # Nothing /\ "cuda" \notin present => Proven("separation", loaded.model, loaded.backend)
SentThere  == Proven("f0", "torchfcpe", cover.device)
HeldThere  == \A h \in held : h.component = "f0" => Proven("f0", h.implementation, h.backend)
Routed == Asked_for /\ sep.profile \in Profiles /\ Rungs /\ LoadedThere /\ SentThere /\ HeldThere

\* A ladder's next attempt is where the model may be.
LEMMA AttemptProven ==
  ASSUME NEW id, NEW rungs, LadderOf(id, rungs) PROVE Proven("separation", id, Head(rungs).backend)
<1>1. PICK last : Descends(rungs, DeviceForModel(id), last)
  BY DEF LadderOf
<1>2. rungs \in Seq(Plan) /\ rungs # <<>>
  BY <1>1 DEF Descends
<1>3. Head(rungs) = rungs[1] /\ 1 \in 1..Len(rungs)
  BY <1>2
<1>4. rungs[1].backend \in {DeviceForModel(id), "cpu"}
  BY <1>1, <1>3 DEF Descends
<1> QED
  BY <1>3, <1>4, DeviceProven DEF Proven

\* The model a call wants is where it may be.
LEMMA WantedProven ==
  ASSUME Rungs, "cuda" \notin present, NEW m \in Wanted
  PROVE  Proven("separation", m.model, m.backend)
<1>1. \A b : Placed(b) = b
  BY DEF Placed
<1>2. CASE sep.at = "attempt"
  <2>1. m.model = Head(sep.todo) /\ m.backend = Head(sep.rungs).backend
    BY <1>1, <1>2 DEF Wanted, Attempt
  <2>2. Proven("separation", Head(sep.todo), Head(sep.rungs).backend)
    BY <1>2, AttemptProven DEF Rungs
  <2> QED
    BY <2>1, <2>2
<1>3. CASE sep.at # "attempt"
  <2>1. m.backend = "cpu"
    BY <1>1, <1>3 DEF Wanted
  <2> QED
    BY <2>1 DEF Proven
<1> QED
  BY <1>2, <1>3

\* A step of a run keeps it.
LEMMA RoutedRuns ==
  ASSUME SepFields, CallKept, Routed, cover.at = "separate", Separating, UNCHANGED <<cover, held>>
  PROVE  Routed'
<1>1. UNCHANGED <<evidence, present>>
  BY RunStep
<1>2. matrix' = matrix
  BY <1>1 DEF matrix
<1>3. \A c, i, b : Proven(c, i, b)' <=> Proven(c, i, b)
  BY <1>2 DEF Proven
<1>4. \A id, rungs : LadderOf(id, rungs)' <=> LadderOf(id, rungs)
  BY <1>1, <1>2 DEF LadderOf, DeviceForModel
<1>5. Asked_for' /\ SentThere' /\ HeldThere'
  BY <1>3 DEF Routed, Asked_for, SentThere, HeldThere
<1>6. ASSUME NEW w, Fails(w) PROVE sep'.profile \in Profiles /\ sep'.at = "failed"
  BY <1>6 DEF Fails, NoRun, Profiles, QualityLevel
<1>7. ASSUME loaded' = Nothing PROVE LoadedThere'
  BY <1>7 DEF LoadedThere
<1>8. ASSUME UNCHANGED loaded PROVE LoadedThere'
  BY <1>1, <1>3, <1>8 DEF Routed, LoadedThere
<1>9. ASSUME NEW f \in FreeMemory, Route(f) PROVE sep'.profile \in Profiles /\ Rungs' /\ LoadedThere'
  <2>1. /\ sep' = [sep EXCEPT !.at = "attempt", !.rungs = PlanFor(Head(sep.todo), f, sep.profile), !.used = FALSE]
        /\ UNCHANGED loaded
    BY <1>9 DEF Route
  <2>2. sep'.profile = sep.profile /\ sep'.todo = sep.todo /\ sep'.rungs = PlanFor(Head(sep.todo), f, sep.profile)
    BY <2>1 DEF SepFields
  <2>3. LadderOf(Head(sep.todo), PlanFor(Head(sep.todo), f, sep.profile))
    BY Planned DEF Routed
  <2> QED
    BY <1>4, <1>8, <2>1, <2>2, <2>3 DEF Routed, Rungs
<1>10. CASE AttemptSucceeds
  <2>1. PICK parts : sep' = [sep EXCEPT !.at = IF Len(sep.todo) = 1 THEN "combine" ELSE "model",
                          !.todo = Tail(@), !.rungs = <<>>, !.results = @ \cup {parts}]
    BY <1>10 DEF AttemptSucceeds
  <2>2. sep'.profile = sep.profile /\ sep'.at # "attempt"
    BY <2>1 DEF SepFields
  <2>3. UNCHANGED loaded
    BY <1>10 DEF AttemptSucceeds
  <2> QED
    BY <1>5, <1>8, <2>2, <2>3 DEF Routed, Rungs
<1>11. CASE AttemptRunsOut
  <2>1. loaded' = Nothing /\ sep.at = "attempt"
    BY <1>11 DEF AttemptRunsOut, RunsOut
  <2>2. CASE Fails("GPU_OOM")
    BY <1>5, <1>6, <1>7, <2>1, <2>2 DEF Routed, Rungs
  <2>3. CASE Len(sep.rungs) # 1 /\ sep' = [sep EXCEPT !.rungs = Tail(@), !.used = TRUE]
    <3>1. sep'.profile = sep.profile /\ sep'.todo = sep.todo /\ sep'.rungs = Tail(sep.rungs)
      BY <2>3 DEF SepFields
    <3>2. PICK last \in Plan : Smallest(last) /\ Descends(sep.rungs, DeviceForModel(Head(sep.todo)), last)
      BY <2>1 DEF Routed, Rungs, LadderOf
    <3>3. Descends(Tail(sep.rungs), DeviceForModel(Head(sep.todo)), last)
      BY <2>3, <3>2, LadderTail
    <3>4. LadderOf(Head(sep.todo), Tail(sep.rungs))
      BY <3>2, <3>3 DEF LadderOf
    <3> QED
      BY <1>4, <1>5, <1>7, <2>1, <3>1, <3>4 DEF Routed, Rungs
  <2> QED
    BY <1>11, <2>2, <2>3 DEF AttemptRunsOut, RunsOut
<1>12. CASE AttemptFails
  BY <1>5, <1>6, <1>7, <1>12 DEF AttemptFails, Routed, Rungs
<1>13. CASE Combine
  <2> DEFINE combined == IF Cardinality(sep.results) > 1 THEN CombineStems(sep.results)
                         ELSE CHOOSE r \in sep.results : TRUE
             parts == [k \in DOMAIN combined |-> FitLength(combined[k], Mix.frames)]
  <2>1. loaded' = Nothing
    BY <1>13 DEF Combine
  <2>2. \/ Fails("NO_VOCALS")
        \/ sep' = [sep EXCEPT !.at = "cleanup", !.results = {}, !.parts = parts,
                             !.steps = IF "vocals" \in DOMAIN parts THEN @ ELSE {}]
    BY <1>13 DEF Combine
  <2> HIDE DEF parts
  <2>3. sep'.profile \in Profiles /\ sep'.at # "attempt"
    BY <1>6, <2>2 DEF SepFields, Routed
  <2> QED
    BY <1>5, <1>7, <2>1, <2>3 DEF Routed, Rungs
<1>14. ASSUME NEW parts, StepOver(parts), sep.at = "cleanup" PROVE sep'.profile = sep.profile /\ sep'.at = "cleanup"
  BY <1>14 DEF StepOver, SepFields
<1>15. CASE CleanupSkips
  BY <1>5, <1>8, <1>14, <1>15 DEF CleanupSkips, Routed, Rungs
<1>16. CASE CleanupRuns
  <2>1. \E parts : StepOver(parts)
    BY <1>16 DEF CleanupRuns
  <2>2. sep.at = "cleanup" /\ UNCHANGED loaded
    BY <1>16 DEF CleanupRuns, Runnable
  <2> QED
    BY <1>5, <1>8, <1>14, <2>1, <2>2 DEF Routed, Rungs
<1>17. CASE CleanupFails
  BY <1>5, <1>8, <1>14, <1>17 DEF CleanupFails, Runnable, Routed, Rungs
<1>18. CASE CleanupRaises
  BY <1>5, <1>6, <1>8, <1>18 DEF CleanupRaises, Routed, Rungs
<1>19. CASE CleanupEnds
  <2>1. sep' = [NoRun EXCEPT !.at = "separated", !.parts = sep.parts] /\ loaded' = Nothing
    BY <1>19 DEF CleanupEnds
  <2>2. sep'.profile \in Profiles /\ sep'.at # "attempt"
    BY <2>1 DEF NoRun, Profiles, QualityLevel
  <2> QED
    BY <1>5, <1>7, <2>1, <2>2 DEF Routed, Rungs
<1>20. ASSUME UNCHANGED sep PROVE sep'.profile \in Profiles /\ Rungs'
  BY <1>4, <1>20 DEF Routed, Rungs
<1>21. CASE Loads
  <2>1. UNCHANGED sep /\ UNCHANGED loaded
    BY <1>21 DEF Loads
  <2> QED
    BY <1>5, <1>8, <1>20, <2>1 DEF Routed
<1>22. CASE HandsOver
  <2>1. UNCHANGED sep /\ \E m \in Wanted : loaded' = m
    BY <1>22 DEF HandsOver
  <2>2. ASSUME "cuda" \notin present PROVE Proven("separation", loaded'.model, loaded'.backend)
    BY <2>1, <2>2, WantedProven DEF Routed
  <2>3. LoadedThere'
    BY <1>1, <1>3, <2>2 DEF LoadedThere
  <2> QED
    BY <1>5, <1>20, <2>1, <2>3 DEF Routed
<1>23. CASE Interrupted
  BY <1>5, <1>6, <1>8, <1>23 DEF Interrupted, Routed, Rungs
<1> QED
  BY <1>5, <1>9, <1>10, <1>11, <1>12, <1>13, <1>15, <1>16, <1>17, <1>18, <1>19, <1>21, <1>22, <1>23 DEF Separating, Routed

\* It begins so.
LEMMA InitRouted == Init => Routed
<1>1. SUFFICES ASSUME Init PROVE Routed
  OBVIOUS
<1>2. cover = NoCover /\ sep = NoRun /\ held = {} /\ loaded = Nothing
  BY <1>1 DEF Init, SepInit
<1>3. cover.at = "idle" /\ cover.device = "cpu" /\ sep.at = "idle"
  BY <1>2 DEF NoCover, NoRun
<1>4. sep.profile \in Profiles
  BY <1>2 DEF NoRun, Profiles, QualityLevel
<1> QED
  BY <1>2, <1>3, <1>4 DEF Routed, Asked_for, Rungs, LoadedThere, SentThere, HeldThere, Proven

\* Where models go, every step keeps to the evidence, which changes only when
\* nothing is under way.
LEMMA RoutedStep == Lone /\ Routed /\ [Next]_vars => Routed'
<1>1. SUFFICES ASSUME Lone, Routed, [Next]_vars PROVE Routed'
  OBVIOUS
<1>2. CoverFields /\ SepFields /\ SepWithin /\ Idle /\ CallKept /\ HeldAlone
  BY <1>1 DEF Lone
<1>3. ASSUME UNCHANGED evidence
      PROVE  matrix' = matrix /\ \A c, i, b : Proven(c, i, b)' <=> Proven(c, i, b)
  BY <1>3 DEF Proven, matrix
<1>4. ASSUME UNCHANGED <<evidence, present>>
      PROVE  \A id, rungs : LadderOf(id, rungs)' <=> LadderOf(id, rungs)
  BY <1>4 DEF LadderOf, DeviceForModel, matrix
<1>5. ASSUME UNCHANGED sepVars PROVE (sep.profile \in Profiles)' /\ Rungs' /\ LoadedThere'
  <2>1. UNCHANGED <<evidence, present, sep, loaded>>
    BY <1>5 DEF sepVars
  <2> QED
    BY <1>1, <1>3, <1>4, <2>1 DEF Routed, Rungs, LoadedThere
<1>6. CASE UNCHANGED vars
  <2>1. UNCHANGED <<sepVars, cover, held>> /\ UNCHANGED evidence
    BY <1>6 DEF vars, sepVars
  <2>2. Asked_for' /\ SentThere' /\ HeldThere'
    BY <1>1, <1>3, <2>1 DEF Routed, Asked_for, SentThere, HeldThere
  <2> QED
    BY <1>5, <2>1, <2>2 DEF Routed
<1>7. CASE Asking
  <2>1. /\ UNCHANGED <<sepVars, voice, held, report>>
        /\ cover'.device \in {"cpu", DeviceForImplementation(matrix, "f0", "torchfcpe", present)}
        /\ cover'.at = "separate" => cover'.request.level \in QualityLevel
    BY <1>7, AskingStep
  <2>2. UNCHANGED evidence
    BY <2>1 DEF sepVars
  <2>3. SentThere'
    BY <1>3, <2>1, <2>2, F0Proven DEF SentThere
  <2>4. Asked_for' /\ HeldThere'
    BY <1>1, <1>3, <2>1, <2>2 DEF Routed, Asked_for, HeldThere
  <2> QED
    BY <1>5, <2>1, <2>3, <2>4 DEF Routed
<1>8. CASE SeparateStarts
  <2>1. UNCHANGED <<evidence, present, call, loaded, voice, cover, held, report>> /\ sep'.at # "attempt" /\ At("separate")
    BY <1>8, StartStep DEF SeparateStarts
  <2>2. Asked_for' /\ SentThere' /\ HeldThere' /\ LoadedThere'
    BY <1>1, <1>3, <2>1 DEF Routed, Asked_for, SentThere, HeldThere, LoadedThere
  <2>3. ASSUME NEW w, Fails(w) PROVE sep'.profile \in Profiles
    BY <2>3 DEF Fails, NoRun, Profiles, QualityLevel
  <2>4. ASSUME NEW l \in QualityLevel, NEW p, NEW s, Start(l, p, s) PROVE sep'.profile \in Profiles
    <3>1. CASE Fails("MODEL_MISSING")
      BY <2>3, <3>1
    <3>2. CASE sep' = [NoRun EXCEPT !.at = "model", !.private = p, !.profile = PROFILES[l],
                                    !.todo = ResolveModels(PROFILES[l], p), !.steps = s]
      <4>1. sep'.profile = PROFILES[l]
        BY <3>2 DEF NoRun
      <4> QED
        BY <4>1 DEF Profiles
    <3> QED
      BY <2>4, <3>1, <3>2 DEF Start
  <2>5. cover.request.level \in QualityLevel
    BY <1>1, <2>1 DEF Routed, Asked_for, At
  <2>6. StartFails => \E w : Fails(w)
    BY DEF StartFails
  <2>7. sep'.profile \in Profiles
    BY <1>8, <2>3, <2>4, <2>5, <2>6 DEF SeparateStarts
  <2> QED
    BY <2>1, <2>2, <2>7 DEF Routed, Rungs
<1>9. CASE SeparateRuns
  <2>1. cover.at = "separate" /\ Separating /\ UNCHANGED <<cover, held>>
    BY <1>9 DEF SeparateRuns, At
  <2> QED
    BY <1>1, <1>2, <2>1, RoutedRuns
<1>10. CASE SeparateEnds
  <2>1. /\ UNCHANGED <<evidence, present, call, loaded, voice, held, report>> /\ sep'.at = "over"
        /\ cover'.at \in {"failed", "written", "analyze"} /\ cover'.device \in {cover.device, "cpu"}
    BY <1>2, <1>10, EndStep
  <2>2. sep' = [NoRun EXCEPT !.at = "over"]
    BY <1>10 DEF SeparateEnds
  <2>3. sep'.profile \in Profiles
    BY <2>2 DEF NoRun, Profiles, QualityLevel
  <2>4. Asked_for' /\ HeldThere' /\ LoadedThere'
    BY <1>1, <1>3, <2>1 DEF Routed, Asked_for, HeldThere, LoadedThere
  <2>5. SentThere'
    BY <1>1, <1>3, <2>1 DEF Routed, SentThere, Proven
  <2> QED
    BY <2>1, <2>3, <2>4, <2>5 DEF Routed, Rungs
<1>11. CASE Working
  <2>1. /\ UNCHANGED <<sepVars, voice, report>> /\ cover'.at # "separate" /\ Onward
        /\ \A h \in held' : h \in held \/ h = F0Model \/ h.component = "conversion"
    BY <1>2, <1>11, WorkingStep
  <2>2. UNCHANGED evidence
    BY <2>1 DEF sepVars
  <2>3. Asked_for'
    BY <2>1 DEF Asked_for
  <2>4. SentThere'
    BY <1>1, <1>3, <2>1, <2>2 DEF Routed, SentThere, Onward, Proven
  <2>5. Proven("f0", F0Model.implementation, F0Model.backend)
    <3>1. CASE cover.method = "fcpe"
      BY <1>1, <3>1 DEF Routed, SentThere, F0Model
    <3>2. CASE cover.method # "fcpe"
      BY <3>2 DEF F0Model, Proven
    <3> QED
      BY <3>1, <3>2
  <2>6. HeldThere'
    BY <1>1, <1>3, <2>1, <2>2, <2>5 DEF Routed, HeldThere
  <2> QED
    BY <1>5, <2>1, <2>3, <2>4, <2>6 DEF Routed
<1>12. CASE VerifyBackends
  <2>1. UNCHANGED <<sep, call, loaded, cover, held>> /\ cover.at = "idle"
    BY <1>12 DEF VerifyBackends, Verify, VerifyTorn, At
  <2>2. cover = NoCover /\ sep = NoRun /\ held = {} /\ loaded = Nothing
    BY <1>2, <2>1 DEF Idle, HeldAlone
  <2>3. cover'.at = "idle" /\ cover'.device = "cpu" /\ sep'.at = "idle" /\ held' = {} /\ loaded' = Nothing
    BY <2>1, <2>2 DEF NoCover, NoRun
  <2>4. (sep.profile \in Profiles)'
    BY <1>1, <2>1 DEF Routed
  <2> QED
    BY <2>3, <2>4 DEF Routed, Asked_for, Rungs, LoadedThere, SentThere, HeldThere, Proven
<1>13. ASSUME NEW s, Analyze(s) PROVE Routed'
  <2>1. UNCHANGED <<sepVars, cover, held>> /\ UNCHANGED evidence
    BY <1>13 DEF Analyze, sepVars
  <2>2. Asked_for' /\ SentThere' /\ HeldThere'
    BY <1>1, <1>3, <2>1 DEF Routed, Asked_for, SentThere, HeldThere
  <2> QED
    BY <1>5, <2>1, <2>2 DEF Routed
<1>14. Next \/ UNCHANGED vars
  BY <1>1
<1> QED
  BY <1>6, <1>7, <1>8, <1>9, <1>10, <1>11, <1>12, <1>13, <1>14, Steps

\* Models are always where they may be.
LEMMA RoutedAlways == Spec => []Routed
<1> QED
  BY InitRouted, RoutedStep, InitLone, LoneStep, PTL DEF Spec

\* SeparatesOnProven: whatever evidence there is, a separation or pitch model is
\* loaded on an accelerator only where that very model has run from end to end,
\* on every retry too; only the CUDA card the separation library takes by itself
\* is excepted (support.py, cover.py, oom.py).
THEOREM OnProven == Spec => []SeparatesOnProven
<1>1. ASSUME Routed PROVE SeparatesOnProven
  <2>1. LoadedThere /\ HeldThere /\ Rungs
    BY <1>1 DEF Routed
  <2>2. ASSUME "cuda" \notin present, NEW m \in Separators PROVE Proven("separation", m.model, m.backend)
    <3>1. CASE m \in Wanted
      BY <2>1, <2>2, <3>1, WantedProven
    <3>2. CASE m = loaded /\ loaded # Nothing
      BY <2>1, <2>2, <3>2 DEF LoadedThere
    <3> QED
      BY <3>1, <3>2 DEF Separators
  <2> QED
    BY <2>1, <2>2 DEF SeparatesOnProven, HeldThere, Proven
<1> QED
  BY <1>1, RoutedAlways, PTL

-----------------------------------------------------------------------------
(* What is asked for when memory runs out: AsksForLess *)

\* Why a run ended, and what an attempt that is followed by another asks for.
Asks ==
  /\ sep'.why = "GPU_OOM" /\ sep.why # "GPU_OOM" => Smallest(Attempt)
  /\ sep.at = "attempt" /\ sep'.at = "attempt" /\ sep'.rungs # sep.rungs => Less(Head(sep'.rungs), Head(sep.rungs))

\* A step of a run asks for less.
LEMMA RunAsks ==
  ASSUME SepFields, Rungs, Separating
  PROVE  Asks
<1>1. ASSUME NEW w, Fails(w) PROVE sep'.at = "failed" /\ sep'.why = w
  BY <1>1, RunFailing
<1>2. ASSUME NEW f \in FreeMemory, Route(f) PROVE Asks
  <2>1. sep.at = "model" /\ sep' = [sep EXCEPT !.at = "attempt", !.rungs = PlanFor(Head(sep.todo), f, sep.profile), !.used = FALSE]
    BY <1>2 DEF Route
  <2>2. sep'.why = sep.why
    BY <2>1 DEF SepFields
  <2> QED
    BY <2>1, <2>2 DEF Asks
<1>3. CASE AttemptSucceeds
  <2>1. PICK parts : sep' = [sep EXCEPT !.at = IF Len(sep.todo) = 1 THEN "combine" ELSE "model",
                          !.todo = Tail(@), !.rungs = <<>>, !.results = @ \cup {parts}]
    BY <1>3 DEF AttemptSucceeds
  <2>2. sep'.why = sep.why /\ sep'.at # "attempt"
    BY <2>1 DEF SepFields
  <2> QED
    BY <2>2 DEF Asks
<1>4. CASE AttemptRunsOut
  <2>1. sep.at = "attempt"
    BY <1>4 DEF AttemptRunsOut, RunsOut
  <2>2. PICK last \in Plan : Smallest(last) /\ Descends(sep.rungs, DeviceForModel(Head(sep.todo)), last)
    BY <2>1 DEF Rungs, LadderOf
  <2>3. sep.rungs \in Seq(Plan) /\ sep.rungs # <<>> /\ sep.rungs[Len(sep.rungs)] = last
    BY <2>2 DEF Descends
  <2>4. CASE Len(sep.rungs) = 1 /\ Fails("GPU_OOM")
    <3>1. Head(sep.rungs) = last
      BY <2>3, <2>4
    <3> QED
      BY <1>1, <2>2, <2>4, <3>1 DEF Asks, Attempt
  <2>5. CASE Len(sep.rungs) # 1 /\ sep' = [sep EXCEPT !.rungs = Tail(@), !.used = TRUE]
    <3>1. sep'.why = sep.why /\ sep'.rungs = Tail(sep.rungs)
      BY <2>5 DEF SepFields
    <3>2. Less(Head(Tail(sep.rungs)), Head(sep.rungs))
      BY <2>2, <2>5, LadderTail
    <3> QED
      BY <3>1, <3>2 DEF Asks
  <2> QED
    BY <1>4, <2>4, <2>5 DEF AttemptRunsOut, RunsOut
<1>5. CASE AttemptFails
  BY <1>1, <1>5 DEF AttemptFails, Asks
<1>6. CASE Combine
  <2> DEFINE combined == IF Cardinality(sep.results) > 1 THEN CombineStems(sep.results)
                         ELSE CHOOSE r \in sep.results : TRUE
             parts == [k \in DOMAIN combined |-> FitLength(combined[k], Mix.frames)]
  <2>1. \/ Fails("NO_VOCALS")
        \/ sep' = [sep EXCEPT !.at = "cleanup", !.results = {}, !.parts = parts,
                             !.steps = IF "vocals" \in DOMAIN parts THEN @ ELSE {}]
    BY <1>6 DEF Combine
  <2> HIDE DEF parts
  <2>2. (sep'.why = sep.why \/ sep'.why = "NO_VOCALS") /\ sep'.at # "attempt"
    BY <1>1, <2>1 DEF SepFields
  <2> QED
    BY <2>2 DEF Asks
<1>7. ASSUME NEW parts, StepOver(parts), sep.at = "cleanup" PROVE Asks
  <2>1. sep'.why = sep.why
    BY <1>7 DEF StepOver, SepFields
  <2> QED
    BY <1>7, <2>1 DEF Asks
<1>8. CASE CleanupSkips
  BY <1>7, <1>8 DEF CleanupSkips
<1>9. CASE CleanupRuns
  <2>1. sep.at = "cleanup" /\ \E parts : StepOver(parts)
    BY <1>9 DEF CleanupRuns, Runnable
  <2> QED
    BY <1>7, <2>1
<1>10. CASE CleanupFails
  BY <1>7, <1>10 DEF CleanupFails, Runnable
<1>11. CASE CleanupRaises
  BY <1>1, <1>11 DEF CleanupRaises, Asks
<1>12. CASE CleanupEnds
  <2>1. sep' = [NoRun EXCEPT !.at = "separated", !.parts = sep.parts]
    BY <1>12 DEF CleanupEnds
  <2>2. sep'.why = "" /\ sep'.at # "attempt"
    BY <2>1 DEF NoRun
  <2> QED
    BY <2>2 DEF Asks
<1>13. CASE Loads \/ HandsOver
  BY <1>13 DEF Loads, HandsOver, Asks
<1>14. CASE Interrupted
  BY <1>1, <1>14 DEF Interrupted, Asks
<1> QED
  BY <1>2, <1>3, <1>4, <1>5, <1>6, <1>8, <1>9, <1>10, <1>11, <1>12, <1>13, <1>14 DEF Separating

\* So does every other: none ends a run for want of memory.
LEMMA StepAsks ==
  ASSUME Lone, Rungs, Next
  PROVE  Asks
<1>1. CoverFields /\ SepFields /\ SepWithin /\ HeldAlone
  BY DEF Lone
<1>2. sep.at = "attempt" => cover.at = "separate"
  BY <1>1 DEF SepWithin, Running
<1>3. ASSUME UNCHANGED sep, cover.at # "separate" PROVE Asks
  BY <1>2, <1>3 DEF Asks
<1>4. CASE Asking
  <2>1. UNCHANGED sepVars /\ cover.at = "idle"
    BY <1>4, AskingStep
  <2> QED
    BY <1>3, <2>1 DEF sepVars
<1>5. CASE SeparateStarts
  <2>1. sep.at = "idle"
    BY <1>5, StartStep
  <2>2. ASSUME NEW w, Fails(w) PROVE sep'.why = w
    BY <2>2, RunFailing
  <2>3. ASSUME NEW l, NEW p, NEW s, Start(l, p, s) PROVE sep'.why \in {"MODEL_MISSING", ""}
    <3>1. CASE Fails("MODEL_MISSING")
      BY <2>2, <3>1
    <3>2. CASE sep' = [NoRun EXCEPT !.at = "model", !.private = p, !.profile = PROFILES[l],
                                    !.todo = ResolveModels(PROFILES[l], p), !.steps = s]
      BY <3>2 DEF NoRun
    <3> QED
      BY <2>3, <3>1, <3>2 DEF Start
  <2>4. StartFails => sep'.why \in {Unsupported, "DISK_FULL"}
    BY <2>2 DEF StartFails
  <2>5. sep'.why \in {"MODEL_MISSING", "", Unsupported, "DISK_FULL"}
    BY <1>5, <2>3, <2>4 DEF SeparateStarts
  <2> QED
    BY <2>1, <2>5 DEF Asks, Unsupported
<1>6. CASE SeparateRuns
  BY <1>1, <1>6, RunAsks DEF SeparateRuns
<1>7. CASE SeparateEnds
  <2>1. sep' = [NoRun EXCEPT !.at = "over"]
    BY <1>7 DEF SeparateEnds
  <2>2. sep'.why = "" /\ sep'.at = "over"
    BY <2>1 DEF NoRun
  <2> QED
    BY <2>2 DEF Asks
<1>8. CASE Working
  <2>1. UNCHANGED sepVars /\ cover.at # "separate"
    BY <1>1, <1>8, WorkingStep
  <2> QED
    BY <1>3, <2>1 DEF sepVars
<1>9. CASE VerifyBackends
  <2>1. UNCHANGED sep /\ cover.at = "idle"
    BY <1>9 DEF VerifyBackends, Verify, VerifyTorn, At
  <2> QED
    BY <1>3, <2>1
<1>10. ASSUME NEW s, Analyze(s) PROVE Asks
  <2>1. UNCHANGED sepVars /\ cover.at = "idle"
    BY <1>10 DEF Analyze, At
  <2> QED
    BY <1>3, <2>1 DEF sepVars
<1> QED
  BY <1>4, <1>5, <1>6, <1>7, <1>8, <1>9, <1>10, Steps

\* AsksForLess: memory is out only after the smallest plan for the processor ran
\* out of it, there unless the library took a CUDA card for it, and every retry
\* asks for less of something and for more of nothing, whatever the plan and
\* however much memory is free (oom.py, memory.py, separation/pipeline.py).
THEOREM LessAndLess == Spec => AsksForLess
<1>1. ASSUME Lone, Routed, [Next]_vars
      PROVE  [ /\ sep'.why = "GPU_OOM" /\ sep.why # "GPU_OOM" =>
                    /\ Attempt.batch_size = 1 /\ Attempt.overlap = 1 /\ Attempt.backend = "cpu"
                    /\ "cuda" \notin present => Placed(Attempt.backend) = "cpu"
               /\ sep.at = "attempt" /\ sep'.at = "attempt" /\ sep'.rungs # sep.rungs =>
                    LET old == Head(sep.rungs)  new == Head(sep'.rungs) IN
                    /\ new # old /\ new.backend \in {old.backend, "cpu"}
                    /\ new.segment_size <= old.segment_size /\ new.overlap <= old.overlap
                    /\ new.batch_size <= old.batch_size ]_vars
  <2>1. Rungs
    BY <1>1 DEF Routed
  <2>2. Next => Asks
    BY <1>1, <2>1, StepAsks
  <2> QED
    BY <1>1, <2>2 DEF Asks, Less, Smallest, Placed
<1>2. Spec => []Lone /\ []Routed
  BY LoneAlways, RoutedAlways, PTL
<1> QED
  BY <1>1, <1>2, PTL DEF Spec, AsksForLess

-----------------------------------------------------------------------------
(* How long everything is: FitsTheSong *)

IsBuffer(b)    == b = Buffer(b.frames, b.channels, b.loud)
Buffers(parts) == \A k \in DOMAIN parts : IsBuffer(parts[k])
SongLong(parts) == \A k \in DOMAIN parts : IsBuffer(parts[k]) /\ parts[k].frames = Mix.frames

\* What is fitted is as long as it is to be, and as loud as it was.
LEMMA Fitted ==
  ASSUME NEW b, NEW n, IsBuffer(b)
  PROVE  IsBuffer(FitLength(b, n)) /\ FitLength(b, n).frames = n /\ FitLength(b, n).loud = b.loud
BY DEF IsBuffer, FitLength, Buffer

\* So is every buffer that is made.
LEMMA Made ==
  ASSUME NEW n, NEW c, NEW l
  PROVE  IsBuffer(Buffer(n, c, l)) /\ Buffer(n, c, l).frames = n /\ Buffer(n, c, l).loud = l
BY DEF IsBuffer, Buffer

\* Everything a separation model returns is as long as what it was given.
LEMMA Produced ==
  ASSUME NEW spec, NEW input, NEW wanted, NEW r \in Produces(spec, input, wanted)
  PROVE  \A k \in DOMAIN r : IsBuffer(r[k]) /\ r[k].frames = input.frames
<1>1. PICK written, n, loud : r = Separate(spec, input, wanted, written, n, loud)
  BY DEF Produces
<1> DEFINE kinds == {spec.stems[i] : i \in written}
           parts == [k \in kinds |-> Buffer(n, 2, (k = spec.stems[1]) => loud)]
<1>2. r = DeriveMissing(parts, input, wanted, loud)
  BY <1>1 DEF Separate
<1>3. Buffers(parts)
  BY Made DEF Buffers
<1> HIDE DEF parts
<1> DEFINE pair == [vocals |-> "instrumental", instrumental |-> "vocals"]
           missing == {k \in DOMAIN pair \cap wanted : k \notin DOMAIN parts /\ pair[k] \in DOMAIN parts}
           whole(k) == IF k \in DOMAIN parts THEN parts[k] ELSE Binary(input, parts[pair[k]], loud)
<1>4. r = [k \in DOMAIN parts \cup missing |-> FitLength(whole(k), input.frames)]
  BY <1>2 DEF DeriveMissing
<1>5. ASSUME NEW k \in DOMAIN r PROVE IsBuffer(whole(k))
  <2>1. CASE k \in DOMAIN parts
    BY <1>3, <2>1 DEF Buffers
  <2>2. CASE k \notin DOMAIN parts
    <3>1. IsBuffer(Binary(input, parts[pair[k]], loud))
      BY Made DEF Binary
    <3> QED
      BY <2>2, <3>1
  <2> QED
    BY <2>1, <2>2
<1> HIDE DEF whole
<1> QED
  BY <1>4, <1>5, Fitted

\* So is what two models make together, as far as it is buffers.
LEMMA Combined ==
  ASSUME NEW results, results # {}, \A r \in results : Buffers(r)
  PROVE  Buffers(IF Cardinality(results) > 1 THEN CombineStems(results) ELSE CHOOSE r \in results : TRUE)
<1>1. Buffers(CombineStems(results))
  BY Made DEF CombineStems, Buffers
<1>2. Buffers(CHOOSE r \in results : TRUE)
  OBVIOUS
<1> QED
  BY <1>1, <1>2

\* The first of some kinds that came back is one that did.
LEMMA FirstIs ==
  ASSUME NEW parts, NEW kinds, Len(kinds) \in Nat
  PROVE  FirstOf(parts, kinds) = {} \/ \E k \in DOMAIN parts : FirstOf(parts, kinds) = {k}
<1> DEFINE I == {i \in 1..Len(kinds) : kinds[i] \in DOMAIN parts}
<1>1. FirstOf(parts, kinds) = LET i == IF I # {} THEN Min(I) ELSE 0 IN IF i = 0 THEN {} ELSE {kinds[i]}
  BY DEF FirstOf, SelectInSeq
<1>2. CASE I = {}
  BY <1>1, <1>2
<1>3. CASE I # {}
  <2>1. I \subseteq Nat /\ \A i \in I : kinds[i] \in DOMAIN parts
    OBVIOUS
  <2> HIDE DEF I
  <2>2. Min(I) \in I
    BY <1>3, <2>1, Least DEF Min
  <2>3. FirstOf(parts, kinds) = {} \/ FirstOf(parts, kinds) = {kinds[Min(I)]}
    BY <1>1
  <2> QED
    BY <2>1, <2>2, <2>3
<1> QED
  BY <1>2, <1>3

\* The shorter of two that are as long.
LEMMA Twice ==
  ASSUME NEW a, NEW b, a.frames = b.frames, a.frames \in Nat PROVE Shortest({a, b}) = a.frames
<1> DEFINE T == {x.frames : x \in {a, b}}
<1>1. T = {a.frames}
  OBVIOUS
<1> HIDE DEF T
<1>2. Min(T) = a.frames
  BY <1>1 DEF Min
<1> QED
  BY <1>2 DEF Shortest, T

\* What a run has kept of the song.
KeptWhole(parts) == SongLong(parts) /\ "vocals" \in DOMAIN parts /\ parts["vocals"].loud

\* A cleanup pass keeps the vocal as long as the song, and heard.
LEMMA Applied ==
  ASSUME NEW parts, KeptWhole(parts), NEW produced, Buffers(produced), NEW main, Len(main) \in Nat,
         NEW removed, Len(removed) \in Nat, NEW extra \in {"ambience", "backing"}
  PROVE  KeptWhole(Apply(parts, produced, main, removed, extra))
<1> DEFINE before == parts["vocals"]
           kept == FirstOf(produced, main)
           rest == FirstOf(produced, removed)
           k == FitLength(produced[CHOOSE x \in kept : TRUE], before.frames)
           other == IF rest = {} THEN Binary(before, k, TRUE)
                    ELSE FitLength(produced[CHOOSE y \in rest : TRUE], before.frames)
           more == [x \in {extra} |-> other]
           voices == IF extra = "backing" THEN [lead |-> k, vocals |-> k] ELSE [vocals |-> k]
<1>1. CASE kept = {} \/ ~k.loud
  BY <1>1 DEF Apply, Kept
<1>2. CASE kept # {} /\ k.loud
  <2>1. Apply(parts, produced, main, removed, extra) = With(parts, With(more, voices))
    BY <1>2 DEF Apply, Kept
  <2>2. before.frames = Mix.frames
    BY DEF KeptWhole, SongLong
  <2>3. IsBuffer(k) /\ k.frames = Mix.frames /\ k.loud
    <3>1. (CHOOSE x \in kept : TRUE) \in DOMAIN produced
      BY <1>2, FirstIs
    <3> QED
      BY <1>2, <2>2, <3>1, Fitted DEF Buffers
  <2>4. IsBuffer(other) /\ other.frames = Mix.frames
    <3>1. CASE rest # {}
      <4>1. (CHOOSE y \in rest : TRUE) \in DOMAIN produced
        BY <3>1, FirstIs
      <4> QED
        BY <2>2, <3>1, <4>1, Fitted DEF Buffers
    <3>2. CASE rest = {}
      <4>1. before.frames = k.frames /\ before.frames = Mix.frames /\ Mix.frames \in Nat
        BY <2>2, <2>3, MixAssumption
      <4>2. other = Binary(before, k, TRUE)
        BY <3>2
      <4> HIDE DEF k, before, other
      <4>3. Shortest({before, k}) = Mix.frames
        BY <4>1, Twice
      <4>4. other = Buffer(Mix.frames, Widest({before, k}), TRUE)
        BY <4>2, <4>3 DEF Binary
      <4> QED
        BY <4>4 DEF IsBuffer, Buffer
    <3> QED
      BY <3>1, <3>2
  <2>5. DOMAIN voices \subseteq {"lead", "vocals"} /\ "vocals" \in DOMAIN voices /\ \A x \in DOMAIN voices : voices[x] = k
    <3> HIDE DEF k
    <3>1. CASE extra = "backing"
      <4>1. voices = [lead |-> k, vocals |-> k]
        BY <3>1
      <4> HIDE DEF voices
      <4> QED
        BY <4>1
    <3>2. CASE extra # "backing"
      <4>1. voices = [vocals |-> k]
        BY <3>2
      <4> HIDE DEF voices
      <4> QED
        BY <4>1
    <3> QED
      BY <3>1, <3>2
  <2> HIDE DEF k, other, voices
  <2>6. SongLong(With(more, voices)) /\ "vocals" \in DOMAIN With(more, voices) /\ With(more, voices)["vocals"] = k
    BY <2>3, <2>4, <2>5 DEF SongLong, With
  <2> HIDE DEF more
  <2>7. KeptWhole(With(parts, With(more, voices)))
    BY <2>3, <2>6 DEF KeptWhole, SongLong, With
  <2> QED
    BY <2>1, <2>7
<1> QED
  BY <1>1, <1>2

\* What a run has so far, and with what it goes on.
RunFits ==
  /\ \A r \in sep.results : Buffers(r)
  /\ sep.at = "combine" => sep.results # {}
  /\ SongLong(sep.parts) /\ ("vocals" \in DOMAIN sep.parts => sep.parts["vocals"].loud)
  /\ sep.at = "cleanup" /\ sep.steps # {} => "vocals" \in DOMAIN sep.parts

\* Nothing is as long as the song, too.
LEMMA NothingFits == SongLong(<<>>) /\ "vocals" \notin DOMAIN <<>> /\ "frames" \notin DOMAIN <<>>
<1>1. DOMAIN <<>> = {}
  OBVIOUS
<1> QED
  BY <1>1 DEF SongLong

\* A run that is over, or has not begun, fits.
LEMMA NoRunFits ==
  ASSUME sep'.results = {}, sep'.parts = <<>>, sep'.at \notin {"combine", "cleanup"}
  PROVE  RunFits'
BY NothingFits DEF RunFits

\* A step of a run fits.
LEMMA RunFitsStep ==
  ASSUME SepFields, RunFits, Separating
  PROVE  RunFits'
<1>0. UNCHANGED Mix
  OBVIOUS
<1>1. ASSUME NEW w, Fails(w) PROVE RunFits'
  BY <1>1, RunFailing, NoRunFits
<1>2. ASSUME NEW f \in FreeMemory, Route(f) PROVE RunFits'
  <2>1. sep' = [sep EXCEPT !.at = "attempt", !.rungs = PlanFor(Head(sep.todo), f, sep.profile), !.used = FALSE]
    BY <1>2 DEF Route
  <2>2. sep'.at = "attempt" /\ sep'.results = sep.results /\ sep'.parts = sep.parts
    BY <2>1 DEF SepFields
  <2> QED
    BY <2>2 DEF RunFits
<1>3. CASE AttemptSucceeds
  <2>1. PICK parts \in Produces(Model, Mix, {"vocals", "instrumental"}) :
          sep' = [sep EXCEPT !.at = IF Len(sep.todo) = 1 THEN "combine" ELSE "model",
                             !.todo = Tail(@), !.rungs = <<>>, !.results = @ \cup {parts}]
    BY <1>3 DEF AttemptSucceeds
  <2>2. Buffers(parts)
    BY Produced DEF Buffers
  <2>3. sep'.at \in {"combine", "model"} /\ sep'.results = sep.results \cup {parts} /\ sep'.parts = sep.parts
    BY <2>1 DEF SepFields
  <2> QED
    BY <2>2, <2>3 DEF RunFits
<1>4. CASE AttemptRunsOut
  <2>1. CASE Fails("GPU_OOM")
    BY <1>1, <2>1
  <2>2. CASE sep.at = "attempt" /\ sep' = [sep EXCEPT !.rungs = Tail(@), !.used = TRUE]
    <3>1. sep'.at = "attempt" /\ sep'.results = sep.results /\ sep'.parts = sep.parts
      BY <2>2 DEF SepFields
    <3> QED
      BY <3>1 DEF RunFits
  <2> QED
    BY <1>4, <2>1, <2>2 DEF AttemptRunsOut, RunsOut
<1>5. CASE AttemptFails
  BY <1>1, <1>5 DEF AttemptFails
<1>6. CASE Combine
  <2> DEFINE combined == IF Cardinality(sep.results) > 1 THEN CombineStems(sep.results)
                         ELSE CHOOSE r \in sep.results : TRUE
             parts == [k \in DOMAIN combined |-> FitLength(combined[k], Mix.frames)]
  <2>1. CASE Fails("NO_VOCALS")
    BY <1>1, <2>1
  <2>2. CASE /\ ~("vocals" \in DOMAIN parts /\ ~parts["vocals"].loud)
             /\ sep' = [sep EXCEPT !.at = "cleanup", !.results = {}, !.parts = parts,
                             !.steps = IF "vocals" \in DOMAIN parts THEN @ ELSE {}]
    <3>1. Buffers(combined)
      <4>1. sep.results # {} /\ \A r \in sep.results : Buffers(r)
        BY <1>6 DEF RunFits, Combine
      <4> QED
        BY <4>1, Combined
    <3> HIDE DEF combined
    <3>2. SongLong(parts)
      BY <3>1, Fitted DEF SongLong, Buffers
    <3> HIDE DEF parts
    <3>3. sep'.at = "cleanup" /\ sep'.results = {} /\ sep'.parts = parts /\ (sep'.steps # {} => "vocals" \in DOMAIN parts)
      BY <2>2 DEF SepFields
    <3> QED
      BY <2>2, <3>2, <3>3 DEF RunFits
  <2> HIDE DEF parts
  <2> QED
    BY <1>6, <2>1, <2>2 DEF Combine, parts, combined
<1>7. ASSUME NEW parts, StepOver(parts), sep.at = "cleanup", KeptWhole(parts) PROVE RunFits'
  <2>1. sep'.at = "cleanup" /\ sep'.results = sep.results /\ sep'.parts = parts
    BY <1>7 DEF StepOver, SepFields
  <2> QED
    BY <1>7, <2>1 DEF RunFits, KeptWhole
<1>8. ASSUME sep.at = "cleanup", sep.steps # {} PROVE KeptWhole(sep.parts)
  BY <1>8 DEF RunFits, KeptWhole
<1>9. CASE CleanupSkips
  BY <1>7, <1>8, <1>9 DEF CleanupSkips
<1>10. CASE CleanupRuns
  <2>1. sep.at = "cleanup" /\ sep.steps # {}
    BY <1>10 DEF CleanupRuns, Runnable
  <2>0. PICK m \in CleanupModel : \E produced \in Produces(m, sep.parts["vocals"], {"vocals", "ambience", "lead", "backing"}) :
          StepOver(IF Step = "karaoke" THEN ApplyKaraoke(sep.parts, produced) ELSE ApplyRemoval(sep.parts, produced))
    BY <1>10 DEF CleanupRuns
  <2>2. PICK produced \in Produces(m, sep.parts["vocals"], {"vocals", "ambience", "lead", "backing"}) :
          StepOver(IF Step = "karaoke" THEN ApplyKaraoke(sep.parts, produced) ELSE ApplyRemoval(sep.parts, produced))
    BY <2>0
  <2>3. Buffers(produced)
    BY Produced DEF Buffers
  <2>4. KeptWhole(ApplyKaraoke(sep.parts, produced))
    <3> DEFINE main == <<"lead", "vocals">>
               removed == <<"backing", "instrumental">>
    <3>1. Len(main) \in Nat /\ Len(removed) \in Nat
      OBVIOUS
    <3> HIDE DEF main, removed
    <3>2. KeptWhole(sep.parts)
      BY <1>8, <2>1
    <3>3. KeptWhole(Apply(sep.parts, produced, main, removed, "backing"))
      BY <2>3, <3>1, <3>2, Applied
    <3> QED
      BY <3>3 DEF main, removed, ApplyKaraoke
  <2>5. KeptWhole(ApplyRemoval(sep.parts, produced))
    <3> DEFINE main == <<"vocals">>
               removed == <<"ambience", "other">>
    <3>1. Len(main) \in Nat /\ Len(removed) \in Nat
      OBVIOUS
    <3> HIDE DEF main, removed
    <3>2. KeptWhole(sep.parts)
      BY <1>8, <2>1
    <3>3. KeptWhole(Apply(sep.parts, produced, main, removed, "ambience"))
      BY <2>3, <3>1, <3>2, Applied
    <3> QED
      BY <3>3 DEF main, removed, ApplyRemoval
  <2> QED
    BY <1>7, <2>1, <2>2, <2>4, <2>5
<1>11. CASE CleanupFails
  BY <1>7, <1>8, <1>11 DEF CleanupFails, Runnable
<1>12. CASE CleanupRaises
  BY <1>1, <1>12 DEF CleanupRaises
<1>13. CASE CleanupEnds
  <2>1. sep' = [NoRun EXCEPT !.at = "separated", !.parts = sep.parts]
    BY <1>13 DEF CleanupEnds
  <2>2. sep'.at = "separated" /\ sep'.results = {} /\ sep'.parts = sep.parts
    BY <2>1 DEF NoRun
  <2> QED
    BY <2>2 DEF RunFits
<1>14. CASE Loads \/ HandsOver
  BY <1>14 DEF Loads, HandsOver, RunFits
<1>15. CASE Interrupted
  BY <1>1, <1>15 DEF Interrupted
<1> QED
  BY <1>2, <1>3, <1>4, <1>5, <1>6, <1>9, <1>10, <1>11, <1>12, <1>13, <1>14, <1>15 DEF Separating

\* What a command is given is taken as it is; everything else has both stems, and
\* only what is to be sung again is worked on beyond its pitch.
Bare == Asked("profile") \/ Asked("pitch")
StemsKept ==
  /\ SongLong(cover.stems)
  /\ "vocals" \in DOMAIN cover.stems /\ ~Bare => cover.stems["vocals"].loud
  /\ cover.at \in {"analyze", "decide", "convert", "measure", "mix"} /\ ~Bare => "instrumental" \in DOMAIN cover.stems
  /\ cover.at \in {"decide", "convert", "measure", "mix"} => ~Asked("profile")
  /\ cover.at \in {"convert", "measure", "mix"} => ~Asked("pitch")
SongKept == StemsKept /\ CoverFits

\* Shifted music is as long as it was.
LEMMA Shifted ==
  ASSUME NEW playback, NEW split, NEW stems, NEW r, NEW returned,
         split = stems, split => SongLong(playback),
         ~split => IsBuffer(playback) /\ playback.frames = Mix.frames,
         ShiftPlayback(playback, split, stems, r, returned) # Refused
  PROVE  ShiftPlayback(playback, split, stems, r, returned).frames = Mix.frames
<1>1. CASE ~split
  <2>1. ShiftPlayback(playback, split, stems, r, returned) = FitLength(Shift(playback, r, returned), playback.frames)
    BY <1>1 DEF ShiftPlayback, ShiftWhole
  <2>2. IsBuffer(playback) /\ playback.frames = Mix.frames
    BY <1>1
  <2>3. IsBuffer(Shift(playback, r, returned))
    <3>1. CASE r = 0
      BY <2>2, <3>1 DEF Shift
    <3>2. CASE r # 0
      <4>1. Shift(playback, r, returned) = FitLength(FitLength(playback, returned), playback.frames)
        BY <3>2 DEF Shift, FitLength
      <4> QED
        BY <2>2, <4>1, Fitted
    <3> QED
      BY <3>1, <3>2
  <2> QED
    BY <2>1, <2>2, <2>3, Fitted
<1>2. CASE split
  <2> DEFINE I == {i \in 1..Len(PRESENT) : PRESENT[i] \in DOMAIN playback}
             there == IF I # {} THEN Min(I) ELSE 0
  <2>1. SelectInSeq(PRESENT, LAMBDA k : k \in DOMAIN playback) = there
    BY DEF SelectInSeq
  <2>2. ShiftPlayback(playback, split, stems, r, returned) = ShiftSplit(playback, r, returned)
    BY <1>2 DEF ShiftPlayback
  <2>3. there # 0
    BY <2>1, <2>2 DEF ShiftSplit
  <2>4. I # {} /\ there = Min(I)
    BY <2>3
  <2>5. I \subseteq Nat /\ \A i \in I : PRESENT[i] \in DOMAIN playback
    BY DEF PRESENT
  <2>6. PRESENT[there] \in DOMAIN playback
    <3> HIDE DEF I
    <3> QED
      BY <2>4, <2>5, Least DEF Min
  <2> HIDE DEF there
  <2>7. playback[PRESENT[there]].frames = Mix.frames
    BY <1>2, <2>6 DEF SongLong
  <2>8. ShiftSplit(playback, r, returned).frames = playback[PRESENT[there]].frames
    BY <2>1, <2>3 DEF ShiftSplit, Buffer
  <2> QED
    BY <2>2, <2>7, <2>8
<1> QED
  BY <1>1, <1>2

\* A mixed cover is as long as its music.
LEMMA MixedFits ==
  ASSUME NEW vocal, NEW playback, NEW returned
  PROVE  /\ "frames" \in DOMAIN MixAndMaster(vocal, playback, returned)
         /\ MixAndMaster(vocal, playback, returned).frames = playback.frames
BY DEF MixAndMaster, FitLength, Buffer

\* A step that leaves the request and the stems alone keeps them.
LEMMA StemsOnward ==
  ASSUME StemsKept, Onward,
         \/ cover'.at = cover.at
         \/ cover.at = "analyze" /\ cover'.at = "decide" /\ ~Asked("profile")
         \/ cover.at = "decide" /\ cover'.at = "convert" /\ ~Asked("pitch")
         \/ cover.at \in {"convert", "measure", "mix"} /\ cover'.at \in {"measure", "mix", "decide"}
         \/ cover'.at \notin {"analyze", "decide", "convert", "measure", "mix"}
  PROVE  StemsKept'
<1>1. CASE cover'.request = cover.request /\ cover'.stems = cover.stems
  <2>1. \A c : Asked(c)' <=> Asked(c)
    BY <1>1 DEF Asked
  <2> QED
    BY <1>1, <2>1 DEF StemsKept, Bare
<1>2. CASE cover'.at = "failed" /\ cover'.stems = <<>>
  BY <1>2, NothingFits DEF StemsKept
<1> QED
  BY <1>1, <1>2 DEF Onward

\* What was delivered before stays as long as it is.
LEMMA ResultKept ==
  ASSUME CoverFits, cover'.result = cover.result \/ "frames" \notin DOMAIN cover'.result
  PROVE  CoverFits'
BY DEF CoverFits

\* A step that works on the stems.
LEMMA WorkFits ==
  ASSUME CoverFields, HeldAlone, SongKept, Working
  PROVE  SongKept'
<1>1. StemsKept /\ CoverFits /\ Onward
  BY WorkingStep DEF SongKept
<1>2. ASSUME NEW w, CoverFails(w) PROVE SongKept'
  <2>1. cover'.at = "failed" /\ cover'.result = <<>>
    BY <1>2, Failing
  <2> QED
    BY <1>1, <2>1, StemsOnward, ResultKept, NothingFits DEF SongKept
<1>3. ASSUME UNCHANGED cover PROVE SongKept'
  BY <1>1, <1>3, StemsOnward, ResultKept DEF SongKept
<1>4. CASE ExtractorLoads \/ VoiceLoads
  BY <1>3, <1>4 DEF ExtractorLoads, VoiceLoads
<1>5. CASE ExtractorFails \/ VoiceFails \/ MixFails
  BY <1>2, <1>5 DEF ExtractorFails, VoiceFails, MixFails
<1>6. ASSUME NEW raw, Extract(raw) PROVE SongKept'
  <2>1. PICK c : cover' = [cover EXCEPT !.at = "decide", !.curve = c] /\ cover.at = "analyze" /\ ~Asked("profile")
    BY <1>6 DEF Extract, At
  <2>2. cover'.at = "decide" /\ cover'.result = cover.result
    BY <2>1 DEF CoverFields
  <2> QED
    BY <1>1, <2>1, <2>2, StemsOnward, ResultKept DEF SongKept
<1>7. ASSUME NEW raw, Profile(raw) PROVE SongKept'
  <2>1. CASE CoverFails("no pitch")
    BY <1>2, <2>1
  <2>2. CASE \E p : cover' = [cover EXCEPT !.at = "profiled", !.curve = raw, !.result = [profile |-> p]]
    <3>1. cover'.at = "profiled" /\ "frames" \notin DOMAIN cover'.result
      BY <2>2 DEF CoverFields
    <3> QED
      BY <1>1, <3>1, StemsOnward, ResultKept DEF SongKept
  <2> QED
    BY <1>7, <2>1, <2>2 DEF Profile
<1>8. CASE Decide
  <2>1. CASE CoverFails("no pitch")
    BY <1>2, <2>1
  <2>2. CASE \E d : cover' = [cover EXCEPT !.at = "convert", !.decision = d]
    <3>1. cover'.at = "convert" /\ cover'.result = cover.result
      BY <2>2 DEF CoverFields
    <3>2. cover.at = "decide" /\ ~Asked("pitch")
      BY <1>8 DEF Decide, At
    <3> QED
      BY <1>1, <3>1, <3>2, StemsOnward, ResultKept DEF SongKept
  <2> QED
    BY <1>8, <2>1, <2>2 DEF Decide
<1>9. CASE Advise
  <2>1. CASE CoverFails("no pitch")
    BY <1>2, <2>1
  <2>2. CASE \E d, m, t : cover' = [cover EXCEPT !.at = "advised", !.decision = d, !.result = [remainder |-> m, told |-> t]]
    <3>1. cover'.at = "advised" /\ "frames" \notin DOMAIN cover'.result
      BY <2>2 DEF CoverFields
    <3> QED
      BY <1>1, <3>1, StemsOnward, ResultKept DEF SongKept
  <2> QED
    BY <1>9, <2>1, <2>2 DEF Advise
<1>10. ASSUME NEW plan, NEW drift, Convert(plan, drift) PROVE SongKept'
  <2>1. PICK o, f : cover' = [cover EXCEPT !.at = "measure", !.out = o, !.fed = f] /\ cover.at = "convert"
    BY <1>10 DEF Convert, At
  <2>2. cover'.at = "measure" /\ cover'.result = cover.result
    BY <2>1 DEF CoverFields
  <2> QED
    BY <1>1, <2>1, <2>2, StemsOnward, ResultKept DEF SongKept
<1>11. ASSUME NEW off, Measure(off) PROVE SongKept'
  <2>1. PICK e : cover' = [cover EXCEPT !.at = "mix", !.error = e] /\ cover.at = "measure"
    BY <1>11 DEF Measure, At
  <2>2. cover'.at = "mix" /\ cover'.result = cover.result
    BY <2>1 DEF CoverFields
  <2> QED
    BY <1>1, <2>1, <2>2, StemsOnward, ResultKept DEF SongKept
<1>12. ASSUME NEW returned, NEW score, NEW louder, Mixed(returned, score, louder) PROVE SongKept'
  <2> DEFINE best  == cover.decision.best
             moved == ShiftPlayback(Playback, Split, Stems, best.remainder, returned)
             vocal == RepairArtifacts([ToMono(cover.stems["vocals"]) EXCEPT !.frames = Len(cover.out)])
             room  == ApplyAmbience(vocal, Layer, Config.ambience_strategy)
             whole == MixAndMaster(room, moved, returned)
  <2>1. cover.at = "mix"
    BY <1>12 DEF Mixed, At
  <2>2. CASE moved = Refused
    BY <1>2, <1>12, <2>2 DEF Mixed
  <2>3. CASE moved # Refused
    <3> DEFINE scores == Append(cover.scores, score)
               at == IF Len(scores) < Variants THEN "decide" ELSE "deliver"
               told == [semitones |-> best.semitones, remainder |-> best.remainder,
                        told |-> ExplainDecision(cover.decision, voice.profile.quality_vs_shift # {}),
                        correction |-> CorrectGlobalPitch(cover.error), variant |-> Len(scores),
                        layer |-> OriginalLayerGain(Layer, Config.ambience_strategy),
                        retrieved |-> Retrieved(LoadIndex(voice.index, voice.faiss), Config),
                        gain |-> MatchEnvelope(0, louder, Config.rms_mix_rate)]
               result == IF Winner(scores) = Len(scores) THEN With(told, whole) ELSE cover.result
    <3>1. cover' = [cover EXCEPT !.at = at, !.scores = scores, !.out = <<>>, !.fed = <<>>, !.error = {}, !.result = result]
      BY <1>12, <2>3 DEF Mixed
    <3>2. moved.frames = Mix.frames
      <4>1. "instrumental" \in DOMAIN cover.stems
        BY <1>1, <2>1 DEF StemsKept, Bare
      <4>2. Split = Stems
        BY <2>3 DEF ShiftPlayback
      <4>3. Split => Playback = cover.stems
        BY <4>2 DEF Playback
      <4>4. ~Split => Playback = cover.stems["instrumental"]
        BY <4>2 DEF Playback
      <4>5. SongLong(cover.stems)
        BY <1>1 DEF StemsKept
      <4>6. IsBuffer(cover.stems["instrumental"]) /\ cover.stems["instrumental"].frames = Mix.frames
        BY <4>1, <4>5 DEF SongLong
      <4> QED
        BY <2>3, <4>2, <4>3, <4>4, <4>5, <4>6, Shifted
    <3>3. "frames" \in DOMAIN whole /\ whole.frames = Mix.frames
      BY <3>2, MixedFits
    <3> HIDE DEF moved, whole, told, at, scores
    <3>4. "frames" \in DOMAIN With(told, whole) /\ With(told, whole).frames = Mix.frames
      BY <3>3 DEF With
    <3>5. result = cover.result \/ result = With(told, whole)
      OBVIOUS
    <3>6. at \in {"decide", "deliver"}
      BY DEF at
    <3> HIDE DEF result
    <3>7. cover'.at = at /\ cover'.result = result
      BY <3>1 DEF CoverFields
    <3>8. CoverFits'
      BY <1>1, <3>4, <3>5, <3>7 DEF CoverFits
    <3> QED
      BY <1>1, <2>1, <3>6, <3>7, <3>8, StemsOnward DEF SongKept
  <2> QED
    BY <2>2, <2>3
<1>13. CASE Deliver
  <2>1. PICK c : cover' = [cover EXCEPT !.at = "delivered", !.result = With(@, [codec |-> c])]
    BY <1>13 DEF Deliver
  <2>2. cover'.at = "delivered" /\ cover'.result = With(cover.result, [codec |-> c])
    BY <2>1 DEF CoverFields
  <2>3. CoverFits'
    BY <1>1, <2>2 DEF CoverFits, With
  <2> QED
    BY <1>1, <2>2, <2>3, StemsOnward DEF SongKept
<1> QED
  BY <1>4, <1>5, <1>6, <1>7, <1>8, <1>9, <1>10, <1>11, <1>12, <1>13 DEF Working

\* What is separated, and what a cover does with it.
Fitting == RunFits /\ SongKept

\* It begins so.
LEMMA InitFit == Init => Fitting
<1>1. SUFFICES ASSUME Init PROVE Fitting
  OBVIOUS
<1>2. cover = NoCover /\ sep = NoRun
  BY <1>1 DEF Init, SepInit
<1>3. cover.at = "idle" /\ cover.stems = <<>> /\ cover.result = <<>>
  BY <1>2 DEF NoCover
<1>4. sep.at = "idle" /\ sep.results = {} /\ sep.parts = <<>>
  BY <1>2 DEF NoRun
<1>5. RunFits
  BY <1>4, NothingFits DEF RunFits
<1> QED
  BY <1>3, <1>5, NothingFits DEF Fitting, SongKept, StemsKept, CoverFits

\* What is asked for has no stems yet, or the song itself to listen to.
LEMMA AskFits ==
  ASSUME Asking
  PROVE  SongKept'
<1>1. ASSUME NEW w, CoverFails(w) PROVE SongKept'
  <2>1. cover'.at = "failed" /\ cover'.stems = <<>> /\ cover'.result = <<>>
    BY <1>1, Failing
  <2> QED
    BY <2>1, NothingFits DEF SongKept, StemsKept, CoverFits
<1>2. ASSUME NEW r, Request(r) PROVE SongKept'
  <2>1. CASE Begin(r)
    <3>1. cover'.at = "separate" /\ cover'.stems = <<>> /\ cover'.result = <<>>
      BY <2>1 DEF Begin, NoCover
    <3> QED
      BY <3>1, NothingFits DEF SongKept, StemsKept, CoverFits
  <2> QED
    BY <1>1, <1>2, <2>1 DEF Request
<1>3. ASSUME NEW a, SeparateCommand(a) PROVE SongKept'
  <2>1. cover'.at = "separate" /\ cover'.stems = <<>> /\ cover'.result = <<>>
    BY <1>3 DEF SeparateCommand, NoCover
  <2> QED
    BY <2>1, NothingFits DEF SongKept, StemsKept, CoverFits
<1>4. ASSUME NEW a, Listen(a), a.command \in {"profile", "pitch"} PROVE SongKept'
  <2>1. cover'.at = "analyze" /\ cover'.stems = [vocals |-> Mix] /\ cover'.result = <<>>
        /\ cover'.request = [command |-> a.command]
    BY <1>4 DEF Listen, NoCover
  <2>2. Bare'
    <3>1. cover'.request # <<>> /\ cover'.request.command = a.command
      <4>1. "command" \in DOMAIN [command |-> a.command] /\ "command" \notin DOMAIN <<>>
        OBVIOUS
      <4> QED
        BY <2>1, <4>1
    <3> QED
      BY <1>4, <3>1 DEF Bare, Asked
  <2>3. SongLong([vocals |-> Mix])
    BY MixAssumption DEF SongLong, IsBuffer, Buffer
  <2> QED
    BY <2>1, <2>2, <2>3, NothingFits DEF SongKept, StemsKept, CoverFits
<1>5. ASSUME NEW a, Command(a) PROVE SongKept'
  <2>1. CASE ConvertCommand(a)
    <3>1. \E r : Request(r)
      BY <2>1 DEF ConvertCommand
    <3> QED
      BY <1>2, <3>1
  <2>2. CASE ProfileCommand(a) \/ PitchCommand(a)
    BY <1>4, <2>2 DEF ProfileCommand, PitchCommand
  <2> QED
    BY <1>3, <1>5, <2>1, <2>2 DEF Command
<1> QED
  BY <1>2, <1>5 DEF Asking

\* A separation that is handed over is whole.
LEMMA EndFits ==
  ASSUME CoverFields, Fitting, SeparateEnds
  PROVE  Fitting'
<1>1. RunFits /\ SongKept /\ CoverFits
  BY DEF Fitting, SongKept
<1>2. RunFits'
  <2>1. sep' = [NoRun EXCEPT !.at = "over"]
    BY DEF SeparateEnds
  <2>2. sep'.at = "over" /\ sep'.results = {} /\ sep'.parts = <<>>
    BY <2>1 DEF NoRun
  <2> QED
    BY <2>2, NoRunFits
<1>3. ASSUME NEW w, CoverFails(w) PROVE SongKept'
  <2>1. cover'.at = "failed" /\ cover'.stems = <<>> /\ cover'.result = <<>>
    BY <1>3, Failing
  <2> QED
    BY <2>1, NothingFits DEF SongKept, StemsKept, CoverFits
<1>4. ASSUME NEW at \in {"written", "analyze"}, at = "analyze" => "instrumental" \in DOMAIN sep.parts,
             cover' = [cover EXCEPT !.at = at, !.stems = sep.parts]
      PROVE  SongKept'
  <2>1. cover'.at = at /\ cover'.stems = sep.parts /\ cover'.result = cover.result
    BY <1>4 DEF CoverFields
  <2>2. SongLong(sep.parts) /\ ("vocals" \in DOMAIN sep.parts => sep.parts["vocals"].loud)
    BY <1>1 DEF RunFits
  <2> QED
    BY <1>1, <1>4, <2>1, <2>2 DEF SongKept, StemsKept, CoverFits
<1>5. SongKept'
  BY <1>3, <1>4 DEF SeparateEnds
<1> QED
  BY <1>2, <1>5 DEF Fitting

\* Every step fits.
LEMMA FitStep == Lone /\ Fitting /\ [Next]_vars => Fitting'
<1>1. SUFFICES ASSUME Lone, Fitting, [Next]_vars PROVE Fitting'
  OBVIOUS
<1>2. CoverFields /\ SepFields /\ HeldAlone /\ RunFits /\ SongKept
  BY <1>1 DEF Lone, Fitting
<1>3. ASSUME UNCHANGED sep PROVE RunFits'
  BY <1>2, <1>3 DEF RunFits
<1>4. ASSUME UNCHANGED cover PROVE SongKept'
  <2>1. \A c : Asked(c)' <=> Asked(c)
    BY <1>4 DEF Asked
  <2> QED
    BY <1>2, <1>4, <2>1 DEF SongKept, StemsKept, Bare, CoverFits
<1>5. CASE UNCHANGED vars
  BY <1>3, <1>4, <1>5 DEF vars, sepVars, Fitting
<1>6. CASE Asking
  <2>1. UNCHANGED sep
    BY <1>6, AskingStep DEF sepVars
  <2> QED
    BY <1>3, <1>6, <2>1, AskFits DEF Fitting
<1>7. CASE SeparateStarts
  <2>1. UNCHANGED cover
    BY <1>7, StartStep
  <2>2. ASSUME NEW w, Fails(w) PROVE RunFits'
    BY <2>2, RunFailing, NoRunFits
  <2>3. ASSUME NEW l, NEW p, NEW s, Start(l, p, s) PROVE RunFits'
    <3>1. CASE Fails("MODEL_MISSING")
      BY <2>2, <3>1
    <3>2. CASE sep' = [NoRun EXCEPT !.at = "model", !.private = p, !.profile = PROFILES[l],
                                    !.todo = ResolveModels(PROFILES[l], p), !.steps = s]
      <4>1. sep'.at = "model" /\ sep'.results = {} /\ sep'.parts = <<>>
        BY <3>2 DEF NoRun
      <4> QED
        BY <4>1, NoRunFits
    <3> QED
      BY <2>3, <3>1, <3>2 DEF Start
  <2>4. StartFails => RunFits'
    BY <2>2 DEF StartFails
  <2> QED
    BY <1>4, <1>7, <2>1, <2>3, <2>4 DEF SeparateStarts, Fitting
<1>8. CASE SeparateRuns
  BY <1>2, <1>4, <1>8, RunFitsStep DEF SeparateRuns, Fitting
<1>9. CASE SeparateEnds
  BY <1>1, <1>2, <1>9, EndFits
<1>10. CASE Working
  <2>1. UNCHANGED sep
    BY <1>2, <1>10, WorkingStep DEF sepVars
  <2> QED
    BY <1>2, <1>3, <1>10, <2>1, WorkFits DEF Fitting
<1>11. CASE VerifyBackends
  BY <1>3, <1>4, <1>11 DEF VerifyBackends, Verify, VerifyTorn, Fitting
<1>12. ASSUME NEW s, Analyze(s) PROVE Fitting'
  BY <1>3, <1>4, <1>12 DEF Analyze, sepVars, Fitting
<1>13. Next \/ UNCHANGED vars
  BY <1>1
<1> QED
  BY <1>5, <1>6, <1>7, <1>8, <1>9, <1>10, <1>11, <1>12, <1>13, Steps

\* FitsTheSong: whatever a model, the shifter or ffmpeg returns, one stem or two,
\* silent or not, every stem of a cover and what is delivered of it are as long as
\* the song to the frame, and the vocal that is sung again can be heard
\* (separation/pipeline.py, cleanup.py, postfx/mix.py, pitch/instrumental.py).
THEOREM AsLongAsTheSong == Spec => []FitsTheSong
<1>1. ASSUME Fitting PROVE FitsTheSong
  <2>1. SongLong(cover.stems) /\ CoverFits /\ ("vocals" \in DOMAIN cover.stems /\ ~Bare => cover.stems["vocals"].loud)
    BY <1>1 DEF Fitting, SongKept, StemsKept
  <2>2. StemsFit
    BY <2>1 DEF StemsFit, SongLong, Bare
  <2> QED
    BY <2>1, <2>2 DEF FitsTheSong
<1> QED
  BY <1>1, InitFit, FitStep, InitLone, LoneStep, PTL DEF Spec

-----------------------------------------------------------------------------
(* A song converted window by window: ConvertedInPlace *)

\* The lesser of two numbers.
LEMMA MinTwo == ASSUME NEW a \in Int, NEW b \in Int PROVE Min({a, b}) = IF a <= b THEN a ELSE b
<1>1. CASE a <= b
  BY <1>1 DEF Min
<1>2. CASE ~(a <= b)
  BY <1>2 DEF Min
<1> QED
  BY <1>1, <1>2

\* The least of three.
LEMMA MinThree == ASSUME NEW a \in Int, NEW b \in Int, NEW c \in Int, a <= b, a <= c PROVE Min({a, b, c}) = a
<1> DEFINE T == {a, b, c}
<1>1. a \in T /\ \A x \in T : a <= x /\ x \in Int
  OBVIOUS
<1> HIDE DEF T
<1>2. Min(T) \in T /\ \A x \in T : Min(T) <= x
  BY <1>1 DEF Min
<1>3. Min(T) <= a /\ a <= Min(T) /\ Min(T) \in Int
  BY <1>1, <1>2
<1>4. Min(T) = a
  BY <1>3
<1> QED
  BY <1>4 DEF T

\* The greater of two.
LEMMA MaxTwo == ASSUME NEW a \in Int, NEW b \in Int PROVE Max({a, b}) = IF a >= b THEN a ELSE b
<1>1. CASE a >= b
  BY <1>1 DEF Max
<1>2. CASE ~(a >= b)
  BY <1>2 DEF Max
<1> QED
  BY <1>1, <1>2

\* How many windows there are: the last is the first that reaches the end.
LEMMA Counted ==
  ASSUME NEW hop \in Nat \ {0}, NEW chunk \in Nat, NEW total \in Nat
  PROVE  LET S == {i \in 0..total : i = 0 \/ (i - 1) * hop + chunk < total}
         IN  \E n \in Nat \ {0} : Cardinality(S) = n /\ \A k \in 2..n : (k - 2) * hop + chunk < total
<1> DEFINE S == {i \in 0..total : i = 0 \/ (i - 1) * hop + chunk < total}
           T == {i \in Nat : i \notin S}
<1>1. 0 \in S
  OBVIOUS
<1>2. total + 1 \in T
  OBVIOUS
<1>3. ASSUME NEW i \in S, NEW j \in Nat, j <= i PROVE j \in S
  <2>1. CASE j = 0
    BY <1>1, <2>1
  <2>2. CASE j # 0
    <3>1. i \in Nat /\ i <= total /\ (i - 1) * hop + chunk < total
      BY <1>3, <2>2
    <3>2. (i - j) * hop >= 0 /\ (i - 1) * hop = (j - 1) * hop + (i - j) * hop
      BY <1>3, <3>1
    <3>3. (j - 1) * hop \in Int /\ (i - 1) * hop \in Int /\ (i - j) * hop \in Int
      BY <3>1
    <3>4. (j - 1) * hop + chunk < total
      BY <3>1, <3>2, <3>3
    <3> QED
      BY <1>3, <3>1, <3>4
  <2> QED
    BY <2>1, <2>2
<1>4. S \subseteq Nat
  OBVIOUS
<1>5. PICK m \in T : \A k \in T : m <= k
  BY <1>2, Least
<1>6. m \in Nat \ {0} /\ m \notin S
  BY <1>1, <1>5
<1>7. S = 0..(m - 1)
  <2>1. ASSUME NEW k \in 0..(m - 1) PROVE k \in S
    BY <1>5, <1>6, <2>1
  <2>2. ASSUME NEW k \in S PROVE k \in 0..(m - 1)
    <3>1. k \in Nat
      BY <1>4
    <3>2. ~(m <= k)
      BY <1>3, <1>6
    <3> QED
      BY <1>6, <3>1, <3>2
  <2> QED
    BY <2>1, <2>2
<1>8. Cardinality(S) = m
  <2>1. 0 \in Int /\ m - 1 \in Int /\ ~(0 > m - 1) /\ (m - 1) - 0 + 1 = m
    BY <1>6
  <2>2. Cardinality(0..(m - 1)) = m
    BY <2>1, FS_Interval
  <2> QED
    BY <1>7, <2>2
<1>9. ASSUME NEW k \in 2..m PROVE (k - 2) * hop + chunk < total
  <2>1. k - 1 \in S
    BY <1>6, <1>7, <1>9
  <2>2. k - 1 # 0 /\ (k - 1) - 1 = k - 2
    BY <1>6
  <2> QED
    BY <2>1, <2>2
<1> QED
  BY <1>6, <1>8, <1>9

\* Samples that are each from their place, and as many as there are to be.
InPlace(s, start, n) == s \in Seq(Int) /\ Len(s) = n /\ \A i \in 1..n : s[i] \in {start + i, Pad}

\* What is fitted stays in place.
LEMMA FitInPlace ==
  ASSUME NEW start \in Nat, NEW m \in Nat, NEW n \in Nat, NEW s \in Seq(Int), Len(s) = m,
         \A i \in 1..m : i <= n => s[i] \in {start + i, Pad}
  PROVE  InPlace(Fit(s, n), start, n)
<1> DEFINE f == [i \in 1..n |-> IF i <= Len(s) THEN s[i] ELSE Pad]
<1>1. Fit(s, n) = f
  BY DEF Fit
<1>2. f \in Seq(Int) /\ Len(f) = n
  BY DEF Pad
<1>3. \A i \in 1..n : f[i] \in {start + i, Pad}
  OBVIOUS
<1> HIDE DEF f
<1> QED
  BY <1>1, <1>2, <1>3 DEF InPlace

\* A window that comes back a frame short or long is put in place.
LEMMA PieceInPlace ==
  ASSUME NEW a \in Nat, NEW b \in Nat, a < b, NEW drift \in -1..1
  PROVE  InPlace(Piece(<<a, b>>, drift), a, b - a)
<1> DEFINE n == b - a
           s == [i \in 1..(n + drift) |-> a + Min({i, n})]
<1>1. n \in Nat /\ n + drift \in Nat
  OBVIOUS
<1>2. Piece(<<a, b>>, drift) = Fit(s, n)
  BY DEF Piece, ConvertWindow
<1>3. \A i \in 1..(n + drift) : a + Min({i, n}) \in Int /\ (i <= n => a + Min({i, n}) = a + i)
  BY <1>1, MinTwo
<1> HIDE DEF n
<1>4. s \in Seq(Int) /\ Len(s) = n + drift /\ \A i \in 1..(n + drift) : i <= n => s[i] \in {a + i, Pad}
  BY <1>1, <1>3
<1> HIDE DEF s
<1>5. InPlace(Fit(s, n), a, n)
  BY <1>1, <1>4, FitInPlace
<1> QED
  BY <1>2, <1>5 DEF n

\* Two stretches that meet where the song says are one.
LEMMA JoinInPlace ==
  ASSUME NEW start \in Nat, NEW end \in Nat, NEW stop \in Nat, start <= end, end <= stop,
         NEW left, InPlace(left, 0, end), NEW right, InPlace(right, start, stop - start)
  PROVE  InPlace(CrossfadeJoin(left, right, end - start), 0, stop)
<1>1. left \in Seq(Int) /\ Len(left) = end /\ \A i \in 1..end : left[i] \in {i, Pad}
  BY DEF InPlace
<1>2. right \in Seq(Int) /\ Len(right) = stop - start /\ \A i \in 1..(stop - start) : right[i] \in {start + i, Pad}
  BY DEF InPlace
<1>3. Max({0, Min({end - start, Len(left), Len(right)})}) = end - start
  <2>1. Min({end - start, end, stop - start}) = end - start
    <3>1. end - start \in Int /\ end \in Int /\ stop - start \in Int /\ end - start <= end /\ end - start <= stop - start
      OBVIOUS
    <3> QED
      BY <3>1, MinThree
  <2>2. Max({0, end - start}) = end - start
    <3>1. 0 \in Int /\ end - start \in Int /\ end - start >= 0
      OBVIOUS
    <3> QED
      BY <3>1, MaxTwo
  <2> QED
    BY <1>1, <1>2, <2>1, <2>2
<1> DEFINE f == [i \in 1..stop |-> IF i <= start THEN left[i]
                   ELSE IF i <= end THEN Blend(left[i], right[i - start]) ELSE right[i - start]]
<1>4. CrossfadeJoin(left, right, end - start) = f
  <2>1. end - (end - start) = start /\ start + (stop - start) = stop
    OBVIOUS
  <2> QED
    BY <1>1, <1>2, <1>3, <2>1 DEF CrossfadeJoin
<1>5. ASSUME NEW i \in 1..stop PROVE f[i] \in {i, Pad} /\ f[i] \in Int
  <2>1. CASE i <= start
    BY <1>1, <2>1 DEF Pad
  <2>2. CASE ~(i <= start)
    <3>1. i - start \in 1..(stop - start) /\ start + (i - start) = i
      BY <2>2
    <3>2. right[i - start] \in {i, Pad}
      BY <1>2, <3>1
    <3>3. i <= end => left[i] \in {i, Pad}
      BY <1>1
    <3>4. i <= end => Blend(left[i], right[i - start]) \in {i, Pad}
      BY <3>2, <3>3 DEF Blend
    <3> QED
      BY <2>2, <3>2, <3>4 DEF Pad
  <2> QED
    BY <2>1, <2>2
<1>6. f \in Seq(Int) /\ Len(f) = stop
  BY <1>5
<1> HIDE DEF f
<1> QED
  BY <1>4, <1>5, <1>6 DEF InPlace

\* J[k] is the first k windows joined, for each of the n windows of a song.
IsJoin(J, windows, drift, overlap, n) ==
  J = [k \in 1..n |-> IF k = 1 THEN Piece(windows[1], drift[1])
                      ELSE CrossfadeJoin(J[k - 1], Piece(windows[k], drift[k]), overlap)]

Joined(windows, drift, overlap, n) == CHOOSE J : IsJoin(J, windows, drift, overlap, n)

\* The windows can be joined, however many there are: the function that joins them
\* exists.
LEMMA JoinExists ==
  ASSUME NEW windows, NEW drift, NEW overlap, NEW n \in Nat
  PROVE  \E J : IsJoin(J, windows, drift, overlap, n)
<1> DEFINE Next_(s, k) == CrossfadeJoin(s, Piece(windows[k], drift[k]), overlap)
           first == Piece(windows[1], drift[1])
           Joins(J, m) == J = [k \in 1..m |-> IF k = 1 THEN first ELSE Next_(J[k - 1], k)]
           T == {m \in Nat : ~ \E J : Joins(J, m)}
<1>0. SUFFICES \E J : Joins(J, n)
  BY DEF IsJoin
<1>1. SUFFICES ASSUME T # {} PROVE FALSE
  <2> HIDE DEF Joins
  <2> QED
    OBVIOUS
<1> HIDE DEF Next_, first
<1>2. PICK m \in T : \A k \in T : m <= k
  <2>1. T \subseteq Nat
    OBVIOUS
  <2> HIDE DEF T
  <2> QED
    BY <1>1, <2>1, Least
<1>3. m # 0
  <2>1. Joins([k \in 1..0 |-> first], 0)
    OBVIOUS
  <2> QED
    BY <1>2, <2>1
<1>4. m - 1 \in Nat /\ m - 1 \notin T
  <2>1. m \in Nat
    OBVIOUS
  <2>2. m - 1 \in Nat /\ ~(m <= m - 1)
    BY <1>3, <2>1
  <2> HIDE DEF T
  <2> QED
    BY <1>2, <2>2
<1>5. PICK J : Joins(J, m - 1)
  BY <1>4
<1> DEFINE K == [k \in 1..m |-> IF k = 1 THEN first ELSE Next_(J[k - 1], k)]
<1>6. ASSUME NEW k \in 1..(m - 1) PROVE K[k] = J[k]
  <2>1. k \in 1..m
    BY <1>4
  <2>2. J[k] = IF k = 1 THEN first ELSE Next_(J[k - 1], k)
    BY <1>5
  <2> QED
    BY <2>1, <2>2
<1>7. ASSUME NEW k \in 1..m PROVE (IF k = 1 THEN first ELSE Next_(J[k - 1], k)) = (IF k = 1 THEN first ELSE Next_(K[k - 1], k))
  <2>1. CASE k = 1
    BY <2>1
  <2>2. CASE k # 1
    <3>1. k - 1 \in 1..(m - 1)
      BY <1>4, <2>2
    <3>2. K[k - 1] = J[k - 1]
      BY <1>6, <3>1
    <3> HIDE DEF K
    <3> QED
      BY <2>2, <3>2
  <2> QED
    BY <2>1, <2>2
<1>8. K = [k \in 1..m |-> IF k = 1 THEN first ELSE Next_(J[k - 1], k)]
  OBVIOUS
<1> HIDE DEF K
<1>9. Joins(K, m)
  BY <1>7, <1>8
<1> QED
  BY <1>2, <1>9

\* A song that is converted in windows is in place, however they overlap and
\* whatever comes back of them.
LEMMA ChunksInPlace ==
  ASSUME NEW total \in Nat \ {0}, NEW chunk \in Nat \ {0}, NEW overlap \in Nat, NEW drift,
         \A k \in 1..Len(PlanChunks(total, chunk, overlap).windows) : drift[k] \in -1..1
  PROVE  InPlace(ConvertInChunks(total, chunk, overlap, drift), 0, total)
<1> DEFINE over == Overlap(chunk, overlap)
           hop  == chunk - over
           S    == {i \in 0..total : i = 0 \/ (i - 1) * hop + chunk < total}
           n    == Cardinality(S)
           windows == [i \in 1..n |-> <<(i - 1) * hop, Min({(i - 1) * hop + chunk, total})>>]
           plan == [overlap |-> IF n = 1 THEN 0 ELSE over, windows |-> windows]
<1>1. PlanChunks(total, chunk, overlap) = plan
  BY DEF PlanChunks
<1>2. over \in 0..(chunk - 1)
  <2>1. chunk - 1 \in Int
    OBVIOUS
  <2>2. over = IF overlap <= chunk - 1 THEN overlap ELSE chunk - 1
    BY <2>1, MinTwo DEF Overlap
  <2> HIDE DEF over
  <2> QED
    BY <2>2
<1> HIDE DEF over
<1>3. hop \in Nat \ {0} /\ hop <= chunk /\ over = chunk - hop
  BY <1>2
<1> HIDE DEF hop
<1>4. n \in Nat \ {0} /\ \A k \in 2..n : (k - 2) * hop + chunk < total
  <2>1. PICK m \in Nat \ {0} : Cardinality(S) = m /\ \A k \in 2..m : (k - 2) * hop + chunk < total
    BY <1>3, Counted
  <2> HIDE DEF S
  <2>2. n = m
    BY <2>1
  <2> HIDE DEF n
  <2> QED
    BY <2>1, <2>2
<1> HIDE DEF n
<1> DEFINE start(k) == (k - 1) * hop
           end(k)   == IF (k - 1) * hop + chunk <= total THEN (k - 1) * hop + chunk ELSE total
<1>5. ASSUME NEW k \in 1..n
      PROVE  windows[k] = <<start(k), end(k)>> /\ start(k) \in Nat /\ end(k) \in Nat /\ start(k) < end(k)
  <2>1. k - 1 \in Nat
    BY <1>4
  <2>2. (k - 1) * hop \in Nat
    BY <1>3, <2>1
  <2>3. (k - 1) * hop < total
    <3>1. CASE k = 1
      BY <1>3, <3>1
    <3>2. CASE k # 1
      <4>1. (k - 2) * hop + chunk < total
        BY <1>4, <3>2
      <4>2. (k - 1) * hop = (k - 2) * hop + hop /\ (k - 2) * hop \in Int
        BY <1>3, <1>4
      <4> QED
        BY <1>3, <4>1, <4>2
    <3> QED
      BY <3>1, <3>2
  <2>4. Min({(k - 1) * hop + chunk, total}) = end(k)
    BY <2>2, MinTwo
  <2> QED
    BY <2>2, <2>3, <2>4
<1>6. ASSUME NEW k \in 2..n
      PROVE  end(k - 1) = (k - 2) * hop + chunk /\ start(k) <= end(k - 1) /\ end(k - 1) <= end(k)
             /\ end(k - 1) - start(k) = over
  <2>1. (k - 2) * hop + chunk < total /\ (k - 1) - 1 = k - 2
    BY <1>4
  <2>2. (k - 1) * hop = (k - 2) * hop + hop /\ (k - 2) * hop \in Int
    BY <1>3, <1>4
  <2> QED
    BY <1>3, <2>1, <2>2
<1>7. Len(windows) = n /\ Frames(windows) = 1..n
  BY <1>4 DEF Frames
<1> HIDE DEF start, end, windows
<1> DEFINE P == PlanChunks(total, chunk, overlap)
           J == Joined(P.windows, drift, P.overlap, Len(P.windows))
<1>8. ConvertInChunks(total, chunk, overlap, drift) = Fit(J[Len(P.windows)], total)
  BY DEF ConvertInChunks, Joined, IsJoin
<1>9. P.windows = windows /\ P.overlap = plan.overlap /\ Len(P.windows) = n
  BY <1>1, <1>7
<1> HIDE DEF P, plan
<1>10. IsJoin(J, P.windows, drift, P.overlap, Len(P.windows))
  <2>1. Len(P.windows) \in Nat
    BY <1>4, <1>9
  <2>2. \E K : IsJoin(K, P.windows, drift, P.overlap, Len(P.windows))
    BY <2>1, JoinExists
  <2> QED
    BY <2>2 DEF Joined
<1> HIDE DEF J
<1>11. \A k \in 1..n : J[k] = IF k = 1 THEN Piece(windows[1], drift[1])
                              ELSE CrossfadeJoin(J[k - 1], Piece(windows[k], drift[k]), plan.overlap)
  BY <1>9, <1>10 DEF IsJoin
<1>12. ASSUME NEW k \in 1..n PROVE InPlace(Piece(windows[k], drift[k]), start(k), end(k) - start(k))
  <2>1. drift[k] \in -1..1
    BY <1>9 DEF P
  <2> QED
    BY <1>5, <2>1, PieceInPlace
<1> DEFINE T == {k \in 1..n : ~InPlace(J[k], 0, end(k))}
<1>13. T = {}
  <2>1. SUFFICES ASSUME T # {} PROVE FALSE
    OBVIOUS
  <2>2. T \subseteq Nat
    OBVIOUS
  <2> HIDE DEF T
  <2>3. PICK m \in T : \A k \in T : m <= k
    BY <2>1, <2>2, Least
  <2> USE DEF T
  <2>4. m \in 1..n /\ ~InPlace(J[m], 0, end(m))
    OBVIOUS
  <2>5. CASE m = 1
    <3>1. J[1] = Piece(windows[1], drift[1])
      BY <1>11, <2>4, <2>5
    <3>2. start(1) = 0
      BY <1>3 DEF start
    <3>3. end(1) - start(1) = end(1)
      BY <1>5, <2>4, <2>5, <3>2
    <3> QED
      BY <1>12, <2>4, <2>5, <3>1, <3>2, <3>3
  <2>6. CASE m # 1
    <3>1. m \in 2..n /\ m - 1 \in 1..n /\ ~(m <= m - 1)
      <4>1. m \in 1..n
        BY <2>4
      <4> HIDE DEF T
      <4> QED
        BY <1>4, <2>6, <4>1
    <3>2. InPlace(J[m - 1], 0, end(m - 1))
      <4>1. m - 1 \notin T
        BY <2>3, <3>1
      <4> QED
        BY <3>1, <4>1
    <3>3. J[m] = CrossfadeJoin(J[m - 1], Piece(windows[m], drift[m]), plan.overlap)
      BY <1>11, <2>4, <2>6
    <3>4. plan.overlap = end(m - 1) - start(m)
      <4>1. n # 1
        BY <1>4, <3>1
      <4> QED
        BY <1>6, <3>1, <4>1 DEF plan
    <3>5. InPlace(Piece(windows[m], drift[m]), start(m), end(m) - start(m))
      BY <1>12, <2>4
    <3>6. start(m) \in Nat /\ end(m - 1) \in Nat /\ end(m) \in Nat /\ start(m) <= end(m - 1) /\ end(m - 1) <= end(m)
      BY <1>5, <1>6, <3>1, <2>4
    <3>7. InPlace(CrossfadeJoin(J[m - 1], Piece(windows[m], drift[m]), end(m - 1) - start(m)), 0, end(m))
      BY <3>2, <3>5, <3>6, JoinInPlace
    <3> QED
      BY <2>4, <3>3, <3>4, <3>7
  <2> QED
    BY <2>5, <2>6
<1>14. InPlace(J[n], 0, end(n)) /\ end(n) \in Nat
  BY <1>4, <1>5, <1>13
<1>15. InPlace(Fit(J[n], total), 0, total)
  <2>1. J[n] \in Seq(Int) /\ Len(J[n]) = end(n) /\ \A i \in 1..end(n) : J[n][i] \in {0 + i, Pad}
    BY <1>14 DEF InPlace
  <2> QED
    BY <1>14, <2>1, FitInPlace
<1> QED
  BY <1>8, <1>9, <1>15

\* What was converted is in place, and there is none before.
LEMMA NoneInPlace ==
  ASSUME cover'.out = <<>> PROVE ConvertedInPlace'
BY DEF ConvertedInPlace, Frames

\* It stays so while the cover does not convert.
LEMMA SameInPlace ==
  ASSUME ConvertedInPlace, cover'.out = cover.out PROVE ConvertedInPlace'
BY DEF ConvertedInPlace, Frames

\* A conversion puts every place where it was.
LEMMA ConvertInPlace ==
  ASSUME CoverFields, NEW plan \in ChunkPlans, NEW drift \in -1..1, Convert(plan, drift)
  PROVE  ConvertedInPlace'
<1> DEFINE windows == PlanChunks(Mix.frames, plan[1], plan[2]).windows
           drifts  == [k \in Frames(windows) |-> IF k = 1 THEN drift ELSE 0 - drift]
           out     == ConvertInChunks(Mix.frames, plan[1], plan[2], drifts)
<1>1. plan[1] \in Nat \ {0} /\ plan[2] \in Nat
  BY ChunksAssumption
<1>2. Mix.frames \in Nat \ {0}
  BY MixAssumption
<1>3. \A k \in 1..Len(windows) : drifts[k] \in -1..1
  BY DEF Frames
<1>4. InPlace(out, 0, Mix.frames)
  <2> HIDE DEF drifts
  <2> QED
    BY <1>1, <1>2, <1>3, ChunksInPlace
<1>5. PICK f : cover' = [cover EXCEPT !.at = "measure", !.out = out, !.fed = f]
  BY DEF Convert
<1> HIDE DEF out
<1>6. cover'.out = out
  BY <1>5 DEF CoverFields
<1>7. Len(out) = Mix.frames /\ \A i \in 1..Mix.frames : out[i] \in {0 + i, Pad}
  BY <1>4 DEF InPlace
<1>8. \A i \in Frames(out) : out[i] \in {i, Pad}
  BY <1>2, <1>7 DEF Frames
<1> QED
  BY <1>6, <1>8 DEF ConvertedInPlace

\* What a step does with what was converted.
LEMMA OutStep ==
  ASSUME Lone, ConvertedInPlace, Next
  PROVE  ConvertedInPlace'
<1>1. CoverFields /\ HeldAlone
  BY DEF Lone
<1>2. ASSUME NEW w, CoverFails(w) PROVE ConvertedInPlace'
  BY <1>2, Failing, NoneInPlace
<1>3. CASE Asking
  <2>1. ASSUME NEW r, Request(r) PROVE ConvertedInPlace'
    <3>1. Begin(r) => cover'.out = <<>>
      BY DEF Begin, NoCover
    <3> QED
      BY <1>2, <2>1, <3>1, NoneInPlace DEF Request
  <2>2. ASSUME NEW a, SeparateCommand(a) PROVE ConvertedInPlace'
    <3>1. cover'.out = <<>>
      BY <2>2 DEF SeparateCommand, NoCover
    <3> QED
      BY <3>1, NoneInPlace
  <2>3. ASSUME NEW a, Listen(a) PROVE ConvertedInPlace'
    <3>1. cover'.out = <<>>
      BY <2>3 DEF Listen, NoCover
    <3> QED
      BY <3>1, NoneInPlace
  <2>4. ASSUME NEW a, Command(a) PROVE ConvertedInPlace'
    <3>1. ConvertCommand(a) => \E r : Request(r)
      BY DEF ConvertCommand
    <3> QED
      BY <2>1, <2>2, <2>3, <2>4, <3>1 DEF Command, ProfileCommand, PitchCommand
  <2> QED
    BY <1>3, <2>1, <2>4 DEF Asking
<1>4. CASE SeparateStarts \/ SeparateRuns \/ VerifyBackends \/ \E s \in Samples : Analyze(s)
  <2>1. UNCHANGED cover
    BY <1>4, StartStep DEF SeparateRuns, VerifyBackends, Analyze
  <2> QED
    BY <2>1, SameInPlace
<1>5. CASE SeparateEnds
  <2>1. \/ \E w : CoverFails(w)
        \/ \E at \in {"written", "analyze"} : cover' = [cover EXCEPT !.at = at, !.stems = sep.parts]
    BY <1>5 DEF SeparateEnds
  <2>2. ASSUME NEW at, cover' = [cover EXCEPT !.at = at, !.stems = sep.parts] PROVE ConvertedInPlace'
    <3>1. cover'.out = cover.out
      BY <1>1, <2>2 DEF CoverFields
    <3> QED
      BY <3>1, SameInPlace
  <2> QED
    BY <1>2, <2>1, <2>2
<1>6. CASE Working
  <2>1. CASE ExtractorLoads \/ VoiceLoads
    <3>1. UNCHANGED cover
      BY <2>1 DEF ExtractorLoads, VoiceLoads
    <3> QED
      BY <3>1, SameInPlace
  <2>2. CASE ExtractorFails \/ VoiceFails \/ MixFails
    BY <1>2, <2>2 DEF ExtractorFails, VoiceFails, MixFails
  <2>3. ASSUME NEW raw, Extract(raw) PROVE ConvertedInPlace'
    <3>1. PICK c : cover' = [cover EXCEPT !.at = "decide", !.curve = c]
      BY <2>3 DEF Extract
    <3>2. cover'.out = cover.out
      BY <1>1, <3>1 DEF CoverFields
    <3> QED
      BY <3>2, SameInPlace
  <2>4. ASSUME NEW raw, Profile(raw) PROVE ConvertedInPlace'
    <3>1. CoverFails("no pitch") \/ \E p : cover' = [cover EXCEPT !.at = "profiled", !.curve = raw, !.result = [profile |-> p]]
      BY <2>4 DEF Profile
    <3>2. ASSUME NEW p, cover' = [cover EXCEPT !.at = "profiled", !.curve = raw, !.result = [profile |-> p]]
          PROVE  cover'.out = cover.out
      BY <1>1, <3>2 DEF CoverFields
    <3> QED
      BY <1>2, <3>1, <3>2, SameInPlace
  <2>5. CASE Decide
    <3>1. CoverFails("no pitch") \/ \E d : cover' = [cover EXCEPT !.at = "convert", !.decision = d]
      BY <2>5 DEF Decide
    <3>2. ASSUME NEW d, cover' = [cover EXCEPT !.at = "convert", !.decision = d] PROVE cover'.out = cover.out
      BY <1>1, <3>2 DEF CoverFields
    <3> QED
      BY <1>2, <3>1, <3>2, SameInPlace
  <2>6. CASE Advise
    <3>1. CoverFails("no pitch") \/ \E d, r : cover' = [cover EXCEPT !.at = "advised", !.decision = d, !.result = r]
      BY <2>6 DEF Advise
    <3>2. ASSUME NEW d, NEW r, cover' = [cover EXCEPT !.at = "advised", !.decision = d, !.result = r]
          PROVE  cover'.out = cover.out
      BY <1>1, <3>2 DEF CoverFields
    <3> QED
      BY <1>2, <3>1, <3>2, SameInPlace
  <2>7. ASSUME NEW off, Measure(off) PROVE ConvertedInPlace'
    <3>1. PICK e : cover' = [cover EXCEPT !.at = "mix", !.error = e]
      BY <2>7 DEF Measure
    <3>2. cover'.out = cover.out
      BY <1>1, <3>1 DEF CoverFields
    <3> QED
      BY <3>2, SameInPlace
  <2>8. ASSUME NEW returned, NEW score, NEW louder, Mixed(returned, score, louder) PROVE ConvertedInPlace'
    <3>1. \/ CoverFails("TypeError")
          \/ \E at \in {"decide", "deliver"} : \E s, r :
               cover' = [cover EXCEPT !.at = at, !.scores = s, !.out = <<>>, !.fed = <<>>, !.error = {}, !.result = r]
      BY <2>8, MixedStep
    <3>2. ASSUME NEW at, NEW s, NEW r,
                 cover' = [cover EXCEPT !.at = at, !.scores = s, !.out = <<>>, !.fed = <<>>, !.error = {}, !.result = r]
          PROVE  cover'.out = <<>>
      BY <1>1, <3>2 DEF CoverFields
    <3> QED
      BY <1>2, <3>1, <3>2, NoneInPlace
  <2>9. CASE Deliver
    <3>1. PICK r : cover' = [cover EXCEPT !.at = "delivered", !.result = r]
      BY <2>9 DEF Deliver
    <3>2. cover'.out = cover.out
      BY <1>1, <3>1 DEF CoverFields
    <3> QED
      BY <3>2, SameInPlace
  <2>10. ASSUME NEW plan \in ChunkPlans, NEW drift \in -1..1, Convert(plan, drift) PROVE ConvertedInPlace'
    BY <1>1, <2>10, ConvertInPlace
  <2> QED
    BY <1>6, <2>1, <2>2, <2>3, <2>4, <2>5, <2>6, <2>7, <2>8, <2>9, <2>10 DEF Working
<1> QED
  BY <1>3, <1>4, <1>5, <1>6, Steps

\* ConvertedInPlace: however long the song, the windows and their overlap are, and
\* whether a window comes back a frame short or long, every place of the converted
\* song is that place of the song or was filled up, never two places at once
\* (chunking.py).
THEOREM EveryPlace == Spec => []ConvertedInPlace
<1>1. Init => ConvertedInPlace
  <2>1. SUFFICES ASSUME Init PROVE ConvertedInPlace
    OBVIOUS
  <2>2. cover.out = <<>>
    BY <2>1 DEF Init, NoCover
  <2> QED
    BY <2>2 DEF ConvertedInPlace, Frames
<1>2. Lone /\ ConvertedInPlace /\ [Next]_vars => ConvertedInPlace'
  <2>1. SUFFICES ASSUME Lone, ConvertedInPlace, [Next]_vars PROVE ConvertedInPlace'
    OBVIOUS
  <2>2. CASE UNCHANGED vars
    BY <2>1, <2>2, SameInPlace DEF vars
  <2> QED
    BY <2>1, <2>2, OutStep
<1> QED
  BY <1>1, <1>2, LoneAlways, PTL DEF Spec

-----------------------------------------------------------------------------
(* What the analysis chooses and adds up *)

\* Ranked highest by f, and the first of those.
Foremost(S, f, i) == i \in S /\ \A j \in S : f[i] > f[j] \/ (f[i] = f[j] /\ i <= j)

\* Of some places up to n one is ranked highest.
LEMMA ForemostExists ==
  ASSUME NEW n \in Nat, NEW S \in SUBSET (0..n), S # {}, NEW f, \A i \in S : f[i] \in Int
  PROVE  \E i \in S : Foremost(S, f, i)
<1> DEFINE U(m) == S \cap (0..m)
           T == {m \in 0..n : U(m) # {} /\ \A i \in U(m) : ~Foremost(U(m), f, i)}
<1>1. SUFFICES ASSUME \A i \in S : ~Foremost(S, f, i) PROVE FALSE
  OBVIOUS
<1>2. n \in T
  <2>1. U(n) = S
    OBVIOUS
  <2> QED
    BY <1>1, <2>1
<1>3. PICK m \in T : \A k \in T : m <= k
  <2>1. T \subseteq Nat
    OBVIOUS
  <2> HIDE DEF T
  <2> QED
    BY <1>2, <2>1, Least
<1>4. m \in 0..n /\ m \in Nat /\ U(m) # {} /\ \A i \in U(m) : ~Foremost(U(m), f, i)
  BY <1>3
<1>5. m = 0 \/ (m - 1 \in 0..n /\ m - 1 \notin T)
  <2>1. m # 0 => m - 1 \in 0..n /\ ~(m <= m - 1)
    BY <1>4
  <2> HIDE DEF T
  <2> QED
    BY <1>3, <2>1
<1>6. m = 0 \/ U(m - 1) = {} \/ \E i \in U(m - 1) : Foremost(U(m - 1), f, i)
  BY <1>5
<1>7. m = 0 => \A j \in U(m) : j = m
  BY <1>4
<1>8. m # 0 => U(m) \subseteq U(m - 1) \cup {m} /\ \A j \in U(m - 1) : j \in U(m) /\ j < m
  BY <1>4
<1>9. CASE \A j \in U(m) : j = m
  <2>1. m \in U(m) /\ f[m] \in Int
    BY <1>4, <1>9
  <2>2. Foremost(U(m), f, m)
    <3> HIDE DEF U
    <3> QED
      BY <1>4, <1>9, <2>1 DEF Foremost
  <2> QED
    BY <1>4, <2>1, <2>2
<1>10. CASE m # 0 /\ \E i \in U(m - 1) : Foremost(U(m - 1), f, i)
  <2>1. PICK i \in U(m - 1) : Foremost(U(m - 1), f, i)
    BY <1>10
  <2>2. i \in U(m) /\ i < m /\ i \in Nat /\ f[i] \in Int /\ \A j \in U(m) : f[j] \in Int /\ j \in Nat
    BY <1>8, <1>10
  <2>3. \A j \in U(m - 1) : f[i] > f[j] \/ (f[i] = f[j] /\ i <= j)
    BY <2>1 DEF Foremost
  <2>4. \A j \in U(m) : j = m \/ j \in U(m - 1)
    BY <1>8, <1>10
  <2> HIDE DEF U
  <2>5. CASE m \in U(m) /\ f[m] > f[i]
    <3>1. f[m] \in Int
      BY <2>2, <2>5
    <3>2. ASSUME NEW j \in U(m), j # m PROVE f[m] > f[j]
      <4>1. f[i] > f[j] \/ f[i] = f[j]
        BY <2>3, <2>4, <3>2
      <4>2. f[j] \in Int
        BY <2>2
      <4> QED
        BY <2>2, <2>5, <3>1, <4>1, <4>2
    <3>3. Foremost(U(m), f, m)
      BY <1>4, <2>5, <3>1, <3>2 DEF Foremost
    <3> QED
      BY <1>4, <2>5, <3>3
  <2>6. CASE ~(m \in U(m) /\ f[m] > f[i])
    <3>1. ASSUME NEW j \in U(m) PROVE f[i] > f[j] \/ (f[i] = f[j] /\ i <= j)
      <4>1. CASE j = m
        <5>1. f[j] \in Int /\ ~(f[j] > f[i])
          BY <2>2, <2>6, <4>1
        <5> QED
          BY <1>4, <2>2, <4>1, <5>1
      <4>2. CASE j # m
        BY <2>3, <2>4, <4>2
      <4> QED
        BY <4>1, <4>2
    <3>2. Foremost(U(m), f, i)
      BY <2>2, <3>1 DEF Foremost
    <3> QED
      BY <1>4, <2>2, <3>2
  <2> QED
    BY <2>5, <2>6
<1>11. CASE m # 0 /\ U(m - 1) = {}
  BY <1>8, <1>9, <1>11
<1> QED
  BY <1>6, <1>7, <1>9, <1>10, <1>11

\* Best is that place.
LEMMA BestIs ==
  ASSUME NEW n \in Nat, NEW S \in SUBSET (0..n), S # {}, NEW f, \A i \in S : f[i] \in Int
  PROVE  Foremost(S, f, Best(S, f))
<1>1. \E i \in S : \A j \in S : f[i] > f[j] \/ (f[i] = f[j] /\ i <= j)
  BY ForemostExists DEF Foremost
<1> QED
  BY <1>1 DEF Best, Foremost

\* The greatest and the least of what f says of some places.
LEMMA Extremes ==
  ASSUME NEW n \in Nat, NEW S \in SUBSET (0..n), S # {}, NEW f, \A i \in S : f[i] \in Int
  PROVE  /\ Max({f[i] : i \in S}) \in Int /\ Min({f[i] : i \in S}) \in Int
         /\ \A j \in S : Min({f[i] : i \in S}) <= f[j] /\ f[j] <= Max({f[i] : i \in S})
<1> DEFINE V == {f[i] : i \in S}
           g == [i \in S |-> -f[i]]
<1>1. \A v \in V : v \in Int
  OBVIOUS
<1>2. \E x \in V : \A y \in V : x >= y
  <2>1. PICK i \in S : \A j \in S : f[i] > f[j] \/ (f[i] = f[j] /\ i <= j)
    BY ForemostExists DEF Foremost
  <2>2. \A j \in S : f[i] >= f[j]
    BY <2>1
  <2> QED
    BY <2>2
<1>3. \E x \in V : \A y \in V : x <= y
  <2>1. \A i \in S : g[i] \in Int
    OBVIOUS
  <2> HIDE DEF g
  <2>2. PICK i \in S : \A j \in S : g[i] > g[j] \/ (g[i] = g[j] /\ i <= j)
    BY <2>1, ForemostExists DEF Foremost
  <2>3. \A j \in S : g[i] >= g[j]
    BY <2>1, <2>2
  <2>4. \A j \in S : f[i] <= f[j]
    <3>1. \A j \in S : -f[i] >= -f[j]
      BY <2>3 DEF g
    <3> QED
      BY <3>1
  <2> QED
    BY <2>4
<1>4. \A i \in S : f[i] \in V
  OBVIOUS
<1> HIDE DEF V
<1>5. Max(V) \in V /\ \A y \in V : Max(V) >= y
  BY <1>2 DEF Max
<1>6. Min(V) \in V /\ \A y \in V : Min(V) <= y
  BY <1>3 DEF Min
<1>7. Max(V) \in Int /\ Min(V) \in Int
  BY <1>1, <1>5, <1>6
<1>8. \A i \in S : Min(V) <= f[i] /\ f[i] <= Max(V)
  BY <1>1, <1>4, <1>5, <1>6, <1>7
<1> QED
  BY <1>7, <1>8 DEF V

\* The greatest of some numbers below a bound is one of them.
LEMMA MaxBelow ==
  ASSUME NEW V \in SUBSET Int, V # {}, NEW b \in Int, \A x \in V : x <= b
  PROVE  Max(V) \in V /\ \A y \in V : y <= Max(V)
<1> DEFINE T == {b - x : x \in V}
<1>1. T \subseteq Nat
  OBVIOUS
<1>2. PICK m \in T : \A k \in T : m <= k
  <2>1. T # {}
    OBVIOUS
  <2> HIDE DEF T
  <2> QED
    BY <1>1, <2>1, Least
<1>3. PICK x \in V : m = b - x
  BY <1>2
<1>4. ASSUME NEW y \in V PROVE x >= y
  <2>1. m <= b - y
    BY <1>2
  <2> QED
    BY <1>3, <2>1
<1>5. \E z \in V : \A y \in V : z >= y
  BY <1>4
<1>6. Max(V) \in V /\ \A y \in V : Max(V) >= y
  BY <1>5 DEF Max
<1> QED
  BY <1>6

\* U[n] is what the frames of a set up to n weigh.
IsSum(U, set, energy, n) ==
  U = [i \in 0..n |-> IF i = 0 THEN 0 ELSE U[i - 1] + (IF i \in set THEN energy[i] ELSE 0)]

\* The sums exist, however many frames there are.
LEMMA SumExists ==
  ASSUME NEW set, NEW energy, NEW n \in Nat
  PROVE  \E U : IsSum(U, set, energy, n)
<1> DEFINE T == {m \in Nat : ~ \E U : IsSum(U, set, energy, m)}
           w(i) == IF i \in set THEN energy[i] ELSE 0
<1>1. SUFFICES ASSUME T # {} PROVE FALSE
  OBVIOUS
<1>2. PICK m \in T : \A k \in T : m <= k
  <2>1. T \subseteq Nat
    OBVIOUS
  <2> HIDE DEF T
  <2> QED
    BY <1>1, <2>1, Least
<1>3. m # 0
  <2> DEFINE Z == [i \in 0..0 |-> 0]
  <2>1. Z = [i \in 0..0 |-> IF i = 0 THEN 0 ELSE Z[i - 1] + (IF i \in set THEN energy[i] ELSE 0)]
    OBVIOUS
  <2>2. IsSum(Z, set, energy, 0)
    BY <2>1 DEF IsSum
  <2> QED
    BY <1>2, <2>2
<1>4. m - 1 \in Nat /\ m - 1 \notin T
  <2>1. m \in Nat
    OBVIOUS
  <2>2. m - 1 \in Nat /\ ~(m <= m - 1)
    BY <1>3, <2>1
  <2> HIDE DEF T
  <2> QED
    BY <1>2, <2>2
<1>5. PICK U : IsSum(U, set, energy, m - 1)
  BY <1>4
<1> DEFINE K == [i \in 0..m |-> IF i = 0 THEN 0 ELSE U[i - 1] + w(i)]
<1>6. ASSUME NEW i \in 0..(m - 1) PROVE K[i] = U[i]
  <2>1. i \in 0..m
    BY <1>4
  <2>2. U[i] = IF i = 0 THEN 0 ELSE U[i - 1] + w(i)
    BY <1>5 DEF IsSum
  <2> QED
    BY <2>1, <2>2
<1>7. ASSUME NEW i \in 0..m
      PROVE  (IF i = 0 THEN 0 ELSE U[i - 1] + w(i)) = (IF i = 0 THEN 0 ELSE K[i - 1] + w(i))
  <2>1. CASE i = 0
    BY <2>1
  <2>2. CASE i # 0
    <3>1. i - 1 \in 0..(m - 1)
      BY <1>4, <2>2
    <3>2. K[i - 1] = U[i - 1]
      BY <1>6, <3>1
    <3> HIDE DEF K, w
    <3> QED
      BY <2>2, <3>2
  <2> QED
    BY <2>1, <2>2
<1>8. K = [i \in 0..m |-> IF i = 0 THEN 0 ELSE U[i - 1] + w(i)]
  OBVIOUS
<1> HIDE DEF K
<1>9. K = [i \in 0..m |-> IF i = 0 THEN 0 ELSE K[i - 1] + w(i)]
  BY <1>7, <1>8
<1>10. IsSum(K, set, energy, m)
  BY <1>9 DEF IsSum
<1> QED
  BY <1>2, <1>10

\* What some frames weigh is a natural number.
LEMMA WeightIs ==
  ASSUME NEW set, NEW energy, Len(energy) \in Nat,
         \A i \in 1..Len(energy) : i \in set => energy[i] \in Nat
  PROVE  WeightOf(set, energy) \in Nat
<1> DEFINE n == Len(energy)
           U == CHOOSE V : IsSum(V, set, energy, n)
           T == {i \in 0..n : U[i] \notin Nat}
<1>1. WeightOf(set, energy) = U[n]
  BY DEF WeightOf, IsSum
<1>2. IsSum(U, set, energy, n)
  BY SumExists
<1> HIDE DEF U
<1>3. \A i \in 0..n : U[i] = IF i = 0 THEN 0 ELSE U[i - 1] + (IF i \in set THEN energy[i] ELSE 0)
  BY <1>2 DEF IsSum
<1>4. T = {}
  <2>1. SUFFICES ASSUME T # {} PROVE FALSE
    OBVIOUS
  <2>2. PICK m \in T : \A k \in T : m <= k
    <3>1. T \subseteq Nat
      OBVIOUS
    <3> HIDE DEF T
    <3> QED
      BY <2>1, <3>1, Least
  <2>3. m \in 0..n /\ U[m] \notin Nat
    BY <2>2
  <2>4. m # 0
    BY <1>3, <2>3
  <2>5. m - 1 \in 0..n /\ ~(m <= m - 1) /\ m \in 1..n
    BY <2>3, <2>4
  <2>6. m - 1 \notin T
    <3> HIDE DEF T
    <3> QED
      BY <2>2, <2>5
  <2>7. U[m - 1] \in Nat
    BY <2>5, <2>6
  <2>8. U[m] = U[m - 1] + (IF m \in set THEN energy[m] ELSE 0)
    BY <1>3, <2>3, <2>4
  <2>9. m \in set => energy[m] \in Nat
    BY <2>5
  <2> QED
    BY <2>3, <2>7, <2>8, <2>9
<1> QED
  BY <1>1, <1>4

\* What lies between points, or beyond them, is a number.
LEMMA InterpIs ==
  ASSUME NEW points \in SUBSET (Int \X Int), points # {}, NEW x \in Int
  PROVE  Interp(x, points) \in Int
<1> DEFINE below == {p \in points : p[1] <= x}
           above == points \ below
           a == CHOOSE p \in below : \A q \in below : q[1] <= p[1]
           b == CHOOSE p \in above : \A q \in above : p[1] <= q[1]
<1>1. Interp(x, points) = IF below = {} THEN b[2] ELSE IF above = {} THEN a[2]
                          ELSE a[2] + ((b[2] - a[2]) * (x - a[1])) \div (b[1] - a[1])
  BY DEF Interp
<1>2. \A p \in points : p[1] \in Int /\ p[2] \in Int
  OBVIOUS
<1>3. \A p \in below : p \in points /\ x - p[1] \in Nat
  BY <1>2
<1>4. \A p \in above : p \in points /\ p[1] - x \in Nat \ {0}
  BY <1>2
<1>5. below # {} \/ above # {}
  OBVIOUS
<1> HIDE DEF below, above
<1>6. ASSUME below # {} PROVE a \in below
  <2> DEFINE T == {x - p[1] : p \in below}
  <2>1. T \subseteq Nat /\ T # {}
    BY <1>3, <1>6
  <2>2. PICK m \in T : \A k \in T : m <= k
    <3> HIDE DEF T
    <3> QED
      BY <2>1, Least
  <2>3. PICK p \in below : m = x - p[1]
    BY <2>2
  <2>4. ASSUME NEW q \in below PROVE q[1] <= p[1]
    <3>1. m <= x - q[1]
      BY <2>2
    <3> QED
      BY <1>2, <1>3, <2>3, <3>1
  <2> QED
    BY <2>4
<1>7. ASSUME above # {} PROVE b \in above
  <2> DEFINE T == {p[1] - x : p \in above}
  <2>1. T \subseteq Nat /\ T # {}
    BY <1>4, <1>7
  <2>2. PICK m \in T : \A k \in T : m <= k
    <3> HIDE DEF T
    <3> QED
      BY <2>1, Least
  <2>3. PICK p \in above : m = p[1] - x
    BY <2>2
  <2>4. ASSUME NEW q \in above PROVE p[1] <= q[1]
    <3>1. m <= q[1] - x
      BY <2>2
    <3> QED
      BY <1>2, <1>4, <2>3, <3>1
  <2> QED
    BY <2>4
<1> HIDE DEF a, b
<1>8. CASE below = {}
  BY <1>1, <1>2, <1>4, <1>5, <1>7, <1>8
<1>9. CASE below # {} /\ above = {}
  BY <1>1, <1>2, <1>3, <1>6, <1>9
<1>10. CASE below # {} /\ above # {}
  <2>1. a[1] \in Int /\ a[2] \in Int /\ b[1] \in Int /\ b[2] \in Int /\ b[1] - a[1] \in Nat \ {0}
    <3>1. x - a[1] \in Nat /\ b[1] - x \in Nat \ {0} /\ a \in points /\ b \in points
      BY <1>3, <1>4, <1>6, <1>7, <1>10
    <3> QED
      BY <1>2, <3>1
  <2> DEFINE u == (b[2] - a[2]) * (x - a[1])  v == b[1] - a[1]
  <2>2. u \in Int /\ v \in Nat \ {0}
    BY <2>1
  <2>3. Interp(x, points) = a[2] + u \div v
    BY <1>1, <1>10
  <2> HIDE DEF u, v
  <2>4. u \div v \in Int
    BY <2>2
  <2> QED
    BY <2>1, <2>3, <2>4
<1> QED
  BY <1>8, <1>9, <1>10

-----------------------------------------------------------------------------
(* The shift that is chosen: InKey *)

\* A shift and what of it the music follows: half an octave at most, whole octaves
\* apart from all of it, and nothing of none.
LEMMA Decomposed ==
  ASSUME NEW s \in Int
  PROVE  /\ Decompose(s).remainder \in -6..5 /\ Decompose(s).octaves \in Int
         /\ (s - Decompose(s).remainder) % 12 = 0
         /\ s \in -6..5 => Decompose(s).remainder = s
<1> DEFINE m == (s + 6) % 12
<1>1. m \in 0..11 /\ (s + 6 - m) % 12 = 0 /\ (s + 6 \in 0..11 => m = s + 6)
  OBVIOUS
<1>2. Decompose(s).remainder = m - 6 /\ Decompose(s).octaves = (s - (m - 6)) \div 12
  BY DEF Decompose
<1> HIDE DEF m
<1>3. s - (m - 6) = s + 6 - m
  BY <1>1
<1>4. (s - (m - 6)) \div 12 \in Int
  BY <1>1
<1> QED
  BY <1>1, <1>2, <1>3, <1>4

\* A frame that is heard is one.
LEMMA Heard == ASSUME NEW curve, NEW energy PROVE Audible(curve, energy) \subseteq 1..Len(curve)
BY DEF Audible, Frames

\* The percentile of what is heard is a number.
LEMMA PercentileIs ==
  ASSUME NEW curve \in Seq(Int), NEW energy \in Seq(Nat), Len(energy) = Len(curve),
         Audible(curve, energy) # {}, NEW percent \in Int
  PROVE  WeightedPercentile(curve, energy, percent) \in Int
<1> DEFINE heard == Audible(curve, energy)
           points == {<<100 * (2 * WeightOf(Lower(heard, curve, i), energy) + energy[i]), curve[i]>> : i \in heard}
<1>1. \A S : WeightOf(S, energy) \in Nat
  <2>1. Len(energy) \in Nat /\ \A i \in 1..Len(energy) : energy[i] \in Nat
    OBVIOUS
  <2> QED
    BY <2>1, WeightIs
<1>2. WeightedPercentile(curve, energy, percent) = Interp(2 * WeightOf(heard, energy) * percent, points)
  BY DEF WeightedPercentile
<1>3. heard \subseteq 1..Len(curve)
  BY Heard
<1>4. \A i \in 1..Len(curve) : curve[i] \in Int /\ energy[i] \in Nat
  OBVIOUS
<1>5. points # {}
  OBVIOUS
<1> HIDE DEF heard
<1>6. points \in SUBSET (Int \X Int)
  <2>1. ASSUME NEW i \in heard
        PROVE  100 * (2 * WeightOf(Lower(heard, curve, i), energy) + energy[i]) \in Int /\ curve[i] \in Int
    BY <1>1, <1>3, <1>4
  <2> QED
    BY <2>1
<1> HIDE DEF points
<1>7. 2 * WeightOf(heard, energy) * percent \in Int
  BY <1>1
<1> QED
  BY <1>2, <1>5, <1>6, <1>7, InterpIs

\* What the singing weighs, and its middle.
Distribution(dist) ==
  /\ dist.total \in Nat /\ dist.median \in Int
  /\ \A set : WeightOf(set, dist.weight) \in Nat

\* A song that is heard has them.
LEMMA Distributed ==
  ASSUME NEW curve \in Seq(Int), NEW energy \in Seq(Nat), Len(energy) = Len(curve),
         FromF0(curve, energy) # Refused
  PROVE  Distribution(FromF0(curve, energy))
<1> DEFINE heard == Audible(curve, energy)
<1>1. heard # {}
  BY DEF FromF0
<1>2. FromF0(curve, energy) = [heard |-> heard, midi |-> curve, weight |-> energy, total |-> WeightOf(heard, energy),
                               median |-> WeightedPercentile(curve, energy, 50)]
  BY <1>1 DEF FromF0
<1>3. \A S : WeightOf(S, energy) \in Nat
  <2>1. Len(energy) \in Nat /\ \A i \in 1..Len(energy) : energy[i] \in Nat
    OBVIOUS
  <2> QED
    BY <2>1, WeightIs
<1>4. WeightedPercentile(curve, energy, 50) \in Int
  BY <1>1, PercentileIs
<1> QED
  BY <1>2, <1>3, <1>4 DEF Distribution

\* A shift with what it costs.
Candidate == [semitones : Search, octaves : Int, remainder : -6..5, cost : Int]

\* Every shift is one.
LEMMA Evaluated ==
  ASSUME NEW dist, Distribution(dist), NEW target \in VoiceProfiles, NEW s \in Search
  PROVE  /\ EvaluateShift(dist, target, s) \in Candidate
         /\ EvaluateShift(dist, target, s).semitones = s
         /\ EvaluateShift(dist, target, s).remainder = Decompose(s).remainder
<1> DEFINE d == Decompose(s)
           c1 == MassOutside(dist, target.comfort_low, target.comfort_high, s)
           c2 == MassOutside(dist, target.abs_low, target.abs_high, s)
           c3 == Abs(dist.median + s - target.median)
           c4 == PlaybackPenalty(d.remainder)
           c5 == QualityPenalty(target, s)
           t  == dist.total
           cost == 2 * 300 * c1 + 8 * 300 * c2 + 2 * 25 * t * c3 + 1 * 50 * t * c4 + 2 * 3 * t * c5
<1>1. s \in Int
  BY DEF Search
<1>2. d.remainder \in -6..5 /\ d.octaves \in Int
  BY <1>1, Decomposed
<1>3. c1 \in Nat /\ c2 \in Nat
  BY DEF MassOutside, Distribution
<1>4. c3 \in Int
  <2>1. dist.median \in Int /\ target.median \in Int
    BY DEF Distribution, VoiceProfiles
  <2> QED
    BY <1>1, <2>1 DEF Abs
<1>5. c4 \in Int
  BY <1>2 DEF PlaybackPenalty, Abs
<1>6. c5 \in Int
  <2>1. target.quality_vs_shift \in SUBSET (Int \X Int)
    BY DEF VoiceProfiles
  <2>2. CASE target.quality_vs_shift = {}
    BY <2>2 DEF QualityPenalty
  <2>3. CASE target.quality_vs_shift # {}
    <3>1. Interp(s, target.quality_vs_shift) \in Int
      BY <1>1, <2>1, <2>3, InterpIs
    <3> QED
      BY <2>3, <3>1 DEF QualityPenalty
  <2> QED
    BY <2>2, <2>3
<1>7. t \in Nat
  BY DEF Distribution
<1>8. EvaluateShift(dist, target, s) = [semitones |-> s, octaves |-> d.octaves, remainder |-> d.remainder, cost |-> cost]
  BY DEF EvaluateShift, CostWeights
<1> HIDE DEF c1, c2, c3, c4, c5, t, d
<1>9. cost \in Int
  <2>1. 2 * 25 * t * c3 \in Int
    BY <1>4, <1>7
  <2>2. 1 * 50 * t * c4 \in Int
    BY <1>5, <1>7
  <2>3. 2 * 3 * t * c5 \in Int
    BY <1>6, <1>7
  <2>4. 2 * 300 * c1 \in Int /\ 8 * 300 * c2 \in Int
    BY <1>3
  <2> QED
    BY <2>1, <2>2, <2>3, <2>4
<1> HIDE DEF cost
<1>10. EvaluateShift(dist, target, s) \in Candidate
  BY <1>2, <1>8, <1>9 DEF Candidate
<1> QED
  BY <1>8, <1>10 DEF d

-----------------------------------------------------------------------------

\* A shift that costs less, or the same and moves the singing less, or the same
\* and the music less, or the same and is lower, is before.
LEMMA ComesBefore ==
  ASSUME NEW a \in Candidate, NEW b \in Candidate,
         \/ a.cost < b.cost
         \/ a.cost = b.cost /\ Abs(a.semitones) < Abs(b.semitones)
         \/ a.cost = b.cost /\ Abs(a.semitones) = Abs(b.semitones) /\ Abs(a.remainder) < Abs(b.remainder)
         \/ /\ a.cost = b.cost /\ Abs(a.semitones) = Abs(b.semitones) /\ Abs(a.remainder) = Abs(b.remainder)
            /\ a.semitones < b.semitones
  PROVE  Before(a, b)
<1> DEFINE K(c) == <<c.cost, Abs(c.semitones), Abs(c.remainder), c.semitones>>
<1>1. Before(a, b) <=> \E i \in 1..4 : K(a)[i] < K(b)[i] /\ \A j \in 1..(i - 1) : K(a)[j] = K(b)[j]
  BY DEF Before
<1>2. \A c : K(c)[1] = c.cost /\ K(c)[2] = Abs(c.semitones) /\ K(c)[3] = Abs(c.remainder) /\ K(c)[4] = c.semitones
  OBVIOUS
<1> HIDE DEF K
<1>3. 1..0 = {} /\ 1..1 = {1} /\ 1..2 = {1, 2} /\ 1..3 = {1, 2, 3}
  OBVIOUS
<1>4. CASE a.cost < b.cost
  BY <1>1, <1>2, <1>3, <1>4
<1>5. CASE a.cost = b.cost /\ Abs(a.semitones) < Abs(b.semitones)
  <2>1. K(a)[2] < K(b)[2] /\ \A j \in 1..(2 - 1) : K(a)[j] = K(b)[j]
    BY <1>2, <1>3, <1>5
  <2> QED
    BY <1>1, <2>1
<1>6. CASE a.cost = b.cost /\ Abs(a.semitones) = Abs(b.semitones) /\ Abs(a.remainder) < Abs(b.remainder)
  <2>1. K(a)[3] < K(b)[3] /\ \A j \in 1..(3 - 1) : K(a)[j] = K(b)[j]
    BY <1>2, <1>3, <1>6
  <2> QED
    BY <1>1, <2>1
<1>7. CASE /\ a.cost = b.cost /\ Abs(a.semitones) = Abs(b.semitones) /\ Abs(a.remainder) = Abs(b.remainder)
           /\ a.semitones < b.semitones
  <2>1. K(a)[4] < K(b)[4] /\ \A j \in 1..(4 - 1) : K(a)[j] = K(b)[j]
    BY <1>2, <1>3, <1>7
  <2> QED
    BY <1>1, <2>1
<1> QED
  BY <1>4, <1>5, <1>6, <1>7

\* Nothing is before what costs less.
LEMMA CostsLess ==
  ASSUME NEW a \in Candidate, NEW b \in Candidate, Before(a, b)
  PROVE  a.cost <= b.cost
<1> DEFINE K(c) == <<c.cost, Abs(c.semitones), Abs(c.remainder), c.semitones>>
<1>1. PICK i \in 1..4 : K(a)[i] < K(b)[i] /\ \A j \in 1..(i - 1) : K(a)[j] = K(b)[j]
  BY DEF Before
<1>2. \A c : K(c)[1] = c.cost
  OBVIOUS
<1> HIDE DEF K
<1>3. a.cost \in Int /\ b.cost \in Int
  BY DEF Candidate
<1>4. CASE i = 1
  BY <1>1, <1>2, <1>3, <1>4
<1>5. CASE i # 1
  <2>1. 1 \in 1..(i - 1)
    BY <1>5
  <2>2. K(a)[1] = K(b)[1]
    BY <1>1, <2>1
  <2> QED
    BY <1>2, <1>3, <2>2
<1> QED
  BY <1>4, <1>5

\* Shifts of a song, one for each number of semitones.
Ranking(all) ==
  all \subseteq Candidate /\ \A a, b \in all : a.semitones = b.semitones => a = b

\* One of them is before all others.
LEMMA CheapestIs ==
  ASSUME NEW all, Ranking(all), all # {}
  PROVE  First(all) \in all /\ \A e \in all \ {First(all)} : Before(First(all), e)
<1> DEFINE S == {c.semitones + 24 : c \in all}
           at == [i \in S |-> CHOOSE c \in all : c.semitones + 24 = i]
           f  == [i \in S |-> -(175 * at[i].cost + 7 * Abs(at[i].semitones) + Abs(at[i].remainder))]
<1>1. ASSUME NEW c \in all
      PROVE  c.semitones \in -24..24 /\ c.remainder \in -6..5 /\ c.cost \in Int
  BY DEF Ranking, Candidate, Search
<1>2. S \in SUBSET (0..48) /\ S # {}
  <2>1. \A c \in all : c.semitones + 24 \in 0..48
    BY <1>1
  <2> QED
    BY <2>1
<1>3. ASSUME NEW i \in S PROVE at[i] \in all /\ at[i].semitones + 24 = i
  <2>1. \E c \in all : c.semitones + 24 = i
    OBVIOUS
  <2> QED
    BY <2>1
<1>4. ASSUME NEW c \in all PROVE c.semitones + 24 \in S /\ at[c.semitones + 24] = c
  <2>1. c.semitones + 24 \in S
    OBVIOUS
  <2>2. at[c.semitones + 24] \in all /\ at[c.semitones + 24].semitones + 24 = c.semitones + 24
    BY <1>3, <2>1
  <2> HIDE DEF at, S
  <2>3. at[c.semitones + 24].semitones = c.semitones
    BY <1>1, <2>2
  <2> QED
    BY <2>1, <2>2, <2>3 DEF Ranking
<1> HIDE DEF at
<1>5. ASSUME NEW i \in S PROVE f[i] = -(175 * at[i].cost + 7 * Abs(at[i].semitones) + Abs(at[i].remainder)) /\ f[i] \in Int
  <2>1. at[i].semitones \in -24..24 /\ at[i].remainder \in -6..5 /\ at[i].cost \in Int
    BY <1>1, <1>3
  <2> HIDE DEF S
  <2>2. Abs(at[i].semitones) \in 0..24 /\ Abs(at[i].remainder) \in 0..6
    BY <2>1 DEF Abs
  <2> QED
    BY <2>1, <2>2
<1> HIDE DEF f, S
<1>6. PICK m \in S : Foremost(S, f, m)
  <2>1. 48 \in Nat /\ \A i \in S : f[i] \in Int
    BY <1>5
  <2> QED
    BY <1>2, <2>1, ForemostExists
<1> DEFINE c == at[m]
<1>7. c \in all /\ c.semitones + 24 = m
  BY <1>3
<1>8. ASSUME NEW e \in all \ {c} PROVE Before(c, e)
  <2> DEFINE j == e.semitones + 24
  <2>1. j \in S /\ at[j] = e
    BY <1>4
  <2>2. f[m] > f[j] \/ (f[m] = f[j] /\ m <= j)
    BY <1>6, <2>1 DEF Foremost
  <2>3. f[m] = -(175 * c.cost + 7 * Abs(c.semitones) + Abs(c.remainder))
    BY <1>5
  <2>4. f[j] = -(175 * e.cost + 7 * Abs(e.semitones) + Abs(e.remainder))
    BY <1>5, <2>1
  <2>5. c.semitones # e.semitones
    BY <1>7 DEF Ranking
  <2>6. c.semitones \in -24..24 /\ c.remainder \in -6..5 /\ c.cost \in Int
    BY <1>1, <1>7
  <2>7. e.semitones \in -24..24 /\ e.remainder \in -6..5 /\ e.cost \in Int
    BY <1>1
  <2>8. m <= j <=> c.semitones <= e.semitones
    BY <1>7, <2>6, <2>7
  <2> HIDE DEF j, c
  <2>9. Abs(c.semitones) \in 0..24 /\ Abs(c.remainder) \in 0..6 /\ Abs(e.semitones) \in 0..24 /\ Abs(e.remainder) \in 0..6
    BY <2>6, <2>7 DEF Abs
  <2>10. \/ c.cost < e.cost
         \/ c.cost = e.cost /\ Abs(c.semitones) < Abs(e.semitones)
         \/ c.cost = e.cost /\ Abs(c.semitones) = Abs(e.semitones) /\ Abs(c.remainder) < Abs(e.remainder)
         \/ /\ c.cost = e.cost /\ Abs(c.semitones) = Abs(e.semitones) /\ Abs(c.remainder) = Abs(e.remainder)
            /\ c.semitones < e.semitones
    <3> DEFINE u == 175 * c.cost + 7 * Abs(c.semitones) + Abs(c.remainder)
               v == 175 * e.cost + 7 * Abs(e.semitones) + Abs(e.remainder)
    <3>1. u \in Int /\ v \in Int
      BY <2>6, <2>7, <2>9
    <3>2. -u > -v \/ (-u = -v /\ c.semitones <= e.semitones)
      BY <2>2, <2>3, <2>4, <2>8
    <3> HIDE DEF u, v
    <3>3. u < v \/ (u = v /\ c.semitones < e.semitones)
      BY <2>5, <2>6, <2>7, <3>1, <3>2
    <3> DEFINE a1 == c.cost
               a2 == Abs(c.semitones)
               a3 == Abs(c.remainder)
               a4 == c.semitones
               b1 == e.cost
               b2 == Abs(e.semitones)
               b3 == Abs(e.remainder)
               b4 == e.semitones
    <3>4. a1 \in Int /\ a2 \in 0..24 /\ a3 \in 0..6 /\ a4 \in Int /\ b1 \in Int /\ b2 \in 0..24 /\ b3 \in 0..6 /\ b4 \in Int
      BY <2>6, <2>7, <2>9
    <3>5. \/ 175 * a1 + 7 * a2 + a3 < 175 * b1 + 7 * b2 + b3
          \/ 175 * a1 + 7 * a2 + a3 = 175 * b1 + 7 * b2 + b3 /\ a4 < b4
      BY <3>3 DEF u, v
    <3> HIDE DEF a1, a2, a3, a4, b1, b2, b3, b4
    <3>6. \/ a1 < b1
          \/ a1 = b1 /\ a2 < b2
          \/ a1 = b1 /\ a2 = b2 /\ a3 < b3
          \/ a1 = b1 /\ a2 = b2 /\ a3 = b3 /\ a4 < b4
      <4>1. CASE a1 > b1
        <5>1. a1 >= b1 + 1
          BY <3>4, <4>1
        <5>2. 175 * a1 >= 175 * b1 + 175
          BY <3>4, <5>1
        <5> QED
          BY <3>4, <3>5, <5>2
      <4>2. CASE a1 < b1
        BY <4>2
      <4>3. CASE a1 = b1
        <5>1. 7 * a2 + a3 < 7 * b2 + b3 \/ (7 * a2 + a3 = 7 * b2 + b3 /\ a4 < b4)
          BY <3>4, <3>5, <4>3
        <5> QED
          BY <3>4, <4>3, <5>1
      <4> QED
        BY <3>4, <4>1, <4>2, <4>3
    <3> QED
      BY <3>6 DEF a1, a2, a3, a4, b1, b2, b3, b4
  <2>11. c \in Candidate /\ e \in Candidate
    BY <1>7 DEF Ranking, c
  <2> QED
    BY <2>10, <2>11, ComesBefore
<1> HIDE DEF c
<1>9. \E d \in all : \A e \in all \ {d} : Before(d, e)
  BY <1>7, <1>8
<1> DEFINE P(d) == \A e \in all \ {d} : Before(d, e)
<1>10. First(all) = CHOOSE d \in all : P(d)
  BY DEF First
<1>11. \E d \in all : P(d)
  BY <1>9
<1> HIDE DEF P
<1>12. First(all) \in all /\ P(First(all))
  BY <1>10, <1>11
<1> QED
  BY <1>12 DEF P

\* A shift whose whole octaves are apart from what the music follows.
InTune(c) ==
  c \in Candidate /\ (c.semitones - c.remainder) % 12 = 0 /\ (c.semitones = 0 => c.remainder = 0)
\* A decision: the best shift and two others, each moving the music differently.
InStep(d) ==
  \E x, y : /\ d.alternatives = <<x, y>>
            /\ InTune(d.best) /\ InTune(x) /\ InTune(y)
            /\ d.best.cost <= x.cost /\ d.best.cost <= y.cost
            /\ d.best.remainder # x.remainder /\ d.best.remainder # y.remainder /\ x.remainder # y.remainder

\* What moves the music differently from one is a ranking too.
LEMMA StillRanked ==
  ASSUME NEW all, Ranking(all), NEW c PROVE Ranking(DistinctFrom(c, all))
BY DEF Ranking, DistinctFrom

\* The decision is one.
LEMMA Decided ==
  ASSUME NEW dist, Distribution(dist), NEW target \in VoiceProfiles
  PROVE  InStep(DecideShift(dist, target))
<1> DEFINE all  == {EvaluateShift(dist, target, s) : s \in Search}
           best == First(all)
           rest == DistinctFrom(best, all)
           x    == First(rest)
           last == DistinctFrom(x, rest)
           y    == First(last)
<1>1. DecideShift(dist, target) = [best |-> best, alternatives |-> <<x, y>>]
  BY DEF DecideShift
<1>2. ASSUME NEW s \in Search
      PROVE  /\ EvaluateShift(dist, target, s) \in Candidate
             /\ EvaluateShift(dist, target, s).semitones = s
             /\ EvaluateShift(dist, target, s).remainder = Decompose(s).remainder
  BY Evaluated
<1>3. Ranking(all)
  BY <1>2 DEF Ranking
<1>4. \A c \in all : InTune(c)
  <2>1. SUFFICES ASSUME NEW s \in Search PROVE InTune(EvaluateShift(dist, target, s))
    OBVIOUS
  <2>2. s \in Int
    BY DEF Search
  <2>3. (s - Decompose(s).remainder) % 12 = 0 /\ (s \in -6..5 => Decompose(s).remainder = s)
    BY <2>2, Decomposed
  <2> QED
    BY <1>2, <2>3 DEF InTune
<1>5. ASSUME NEW k \in 0..2 PROVE \E c \in all : c.remainder = k
  <2>1. k \in Search /\ k \in Int /\ k \in -6..5
    BY DEF Search
  <2> QED
    BY <1>2, <2>1, Decomposed
<1> HIDE DEF all
<1>6. best \in all /\ \A e \in all \ {best} : Before(best, e)
  <2>1. all # {}
    BY <1>5
  <2> QED
    BY <1>3, <2>1, CheapestIs
<1> HIDE DEF best
<1>7. rest \subseteq all /\ Ranking(rest) /\ \A e \in rest : e.remainder # best.remainder
  BY <1>3, StillRanked DEF DistinctFrom
<1>8. \A r : \E k \in 0..2 : k # r /\ k # best.remainder
  <2>1. 0 \in 0..2 /\ 1 \in 0..2 /\ 2 \in 0..2 /\ 0 # 1 /\ 0 # 2 /\ 1 # 2
    OBVIOUS
  <2> QED
    BY <2>1, Zenon
<1>9. \A r : \E e \in rest : e.remainder # r
  <2>1. SUFFICES ASSUME NEW r PROVE \E e \in rest : e.remainder # r
    OBVIOUS
  <2>2. PICK k \in 0..2 : k # r /\ k # best.remainder
    BY <1>8
  <2>3. PICK e \in all : e.remainder = k
    BY <1>5
  <2> QED
    BY <2>2, <2>3 DEF DistinctFrom
<1> HIDE DEF rest
<1>10. x \in rest
  <2>1. rest # {} /\ Ranking(rest)
    BY <1>7, <1>9
  <2>2. First(rest) \in rest /\ \A e \in rest \ {First(rest)} : Before(First(rest), e)
    BY <2>1, CheapestIs
  <2> QED
    BY <2>2
<1> HIDE DEF x
<1>11. last \subseteq rest /\ Ranking(last) /\ \A e \in last : e.remainder # x.remainder
  BY <1>7, StillRanked DEF DistinctFrom
<1>12. last # {}
  BY <1>9 DEF DistinctFrom
<1> HIDE DEF last
<1>13. y \in last
  <2>1. Ranking(last)
    BY <1>11
  <2>2. First(last) \in last /\ \A e \in last \ {First(last)} : Before(First(last), e)
    BY <1>12, <2>1, CheapestIs
  <2> QED
    BY <2>2
<1> HIDE DEF y
<1>14. ASSUME NEW e \in rest PROVE best.cost <= e.cost
  <2>1. e \in all \ {best}
    BY <1>7
  <2>2. Before(best, e) /\ best \in Candidate /\ e \in Candidate
    BY <1>3, <1>6, <2>1 DEF Ranking
  <2> QED
    BY <2>2, CostsLess
<1>15. InTune(best) /\ InTune(x) /\ InTune(y)
  BY <1>4, <1>6, <1>7, <1>10, <1>11, <1>13
<1>16. best.cost <= x.cost /\ best.cost <= y.cost
  BY <1>10, <1>11, <1>13, <1>14
<1>17. best.remainder # x.remainder /\ best.remainder # y.remainder /\ x.remainder # y.remainder
  BY <1>7, <1>10, <1>11, <1>13
<1> QED
  BY <1>1, <1>15, <1>16, <1>17 DEF InStep

\* What the user is told says whether the music moves.
Says(told, remainder) ==
  remainder = 0 <=> told.lines[1] = <<>> \/ told.lines[1][3] = "octaves"

\* It does, of a decision that is in step.
LEMMA Told ==
  ASSUME NEW d, InStep(d), NEW measured
  PROVE  Says(ExplainDecision(d, measured), d.best.remainder)
<1> DEFINE c == d.best
           e == ExplainCandidate(c)
           t == [i \in Frames(d.alternatives) |-> ExplainCandidate(d.alternatives[i])]
           lines == <<e>> \o t
<1>1. ExplainDecision(d, measured).lines = lines
  BY DEF ExplainDecision
<1>2. InTune(c)
  BY DEF InStep
<1>3. lines[1] = e
  <2>1. Frames(d.alternatives) = 1..2
    BY DEF InStep, Frames
  <2> HIDE DEF e
  <2>2. t \in Seq({ExplainCandidate(d.alternatives[i]) : i \in 1..2})
    BY <2>1
  <2> DEFINE R == {ExplainCandidate(d.alternatives[i]) : i \in 1..2} \cup {e}
  <2>3. t \in Seq(R) /\ <<e>> \in Seq(R) /\ Len(<<e>>) = 1 /\ <<e>>[1] = e
    BY <2>1
  <2> HIDE DEF R, t
  <2> QED
    BY <2>3, ConcatProperties
<1> HIDE DEF lines
<1>4. CASE c.semitones = 0
  <2>1. e = <<>> /\ c.remainder = 0
    BY <1>2, <1>4 DEF ExplainCandidate, InTune
  <2> QED
    BY <1>1, <1>3, <2>1 DEF Says
<1>5. CASE c.semitones # 0 /\ c.remainder = 0
  <2>1. e = <<Direction(c.semitones), Abs(c.semitones), "octaves", Abs(c.octaves)>>
    BY <1>5 DEF ExplainCandidate
  <2>2. e[3] = "octaves"
    BY <2>1
  <2> QED
    BY <1>1, <1>3, <1>5, <2>2 DEF Says
<1>6. CASE c.semitones # 0 /\ c.remainder # 0
  <2>1. e = <<Direction(c.semitones), Abs(c.semitones), Direction(c.remainder), Abs(c.remainder)>>
    BY <1>6 DEF ExplainCandidate
  <2>2. e[3] = Direction(c.remainder) /\ e # <<>>
    BY <2>1
  <2>3. Direction(c.remainder) # "octaves"
    BY DEF Direction
  <2> QED
    BY <1>1, <1>3, <1>6, <2>2, <2>3 DEF Says
<1> QED
  BY <1>4, <1>5, <1>6

\* Such a decision is InKey's.
LEMMA StepInKey ==
  ASSUME NEW d, InStep(d)
  PROVE  LET all == {d.best} \cup Range(d.alternatives) IN
         /\ \A c \in all : (c.semitones - c.remainder) % 12 = 0 /\ Abs(c.remainder) <= 6 /\ d.best.cost <= c.cost
         /\ Cardinality({c.remainder : c \in all}) = 1 + Len(d.alternatives)
<1>1. PICK x, y : /\ d.alternatives = <<x, y>>
                  /\ InTune(d.best) /\ InTune(x) /\ InTune(y)
                  /\ d.best.cost <= x.cost /\ d.best.cost <= y.cost
                  /\ d.best.remainder # x.remainder /\ d.best.remainder # y.remainder /\ x.remainder # y.remainder
  BY DEF InStep
<1> DEFINE all == {d.best} \cup Range(d.alternatives)
<1>2. all = {d.best, x, y}
  <2>1. DOMAIN <<x, y>> = {1, 2} /\ <<x, y>>[1] = x /\ <<x, y>>[2] = y
    OBVIOUS
  <2>2. Range(<<x, y>>) = {x, y}
    BY <2>1 DEF Range
  <2> QED
    BY <1>1, <2>2
<1> HIDE DEF all
<1>3. ASSUME NEW c \in all
      PROVE  (c.semitones - c.remainder) % 12 = 0 /\ Abs(c.remainder) <= 6 /\ d.best.cost <= c.cost
  <2>1. InTune(c)
    BY <1>1, <1>2
  <2>2. c.remainder \in -6..5 /\ d.best.cost \in Int
    BY <1>1, <2>1 DEF InTune, Candidate
  <2>3. Abs(c.remainder) <= 6
    BY <2>2 DEF Abs
  <2>4. d.best.cost <= c.cost
    BY <1>1, <1>2, <2>2
  <2> QED
    BY <2>1, <2>3, <2>4 DEF InTune
<1>4. {c.remainder : c \in all} = {d.best.remainder, x.remainder, y.remainder}
  BY <1>2
<1>5. Cardinality({d.best.remainder, x.remainder, y.remainder}) = 3
  <2> DEFINE p == d.best.remainder
             q == x.remainder
             r == y.remainder
  <2>1. p # q /\ p # r /\ q # r
    BY <1>1
  <2> HIDE DEF p, q, r
  <2>2. IsFiniteSet({p}) /\ Cardinality({p}) = 1
    BY FS_Singleton
  <2>3. IsFiniteSet({p} \cup {q}) /\ Cardinality({p} \cup {q}) = 2
    BY <2>1, <2>2, FS_AddElement
  <2>4. Cardinality(({p} \cup {q}) \cup {r}) = 3
    BY <2>1, <2>3, FS_AddElement
  <2>5. {p, q, r} = ({p} \cup {q}) \cup {r}
    OBVIOUS
  <2>6. Cardinality({p, q, r}) = 3
    BY <2>4, <2>5
  <2> QED
    BY <2>6 DEF p, q, r
<1>6. Len(d.alternatives) = 2
  BY <1>1
<1>7. Cardinality({c.remainder : c \in all}) = 1 + Len(d.alternatives)
  BY <1>4, <1>5, <1>6
<1> QED
  BY <1>3, <1>7 DEF all

-----------------------------------------------------------------------------

\* What a render goes through, with the knobs and the voice it was asked for.
Rendering == {"analyze", "decide", "convert", "measure", "mix", "deliver", "delivered"}
RequestKept ==
  /\ voice \in Voices
  /\ cover.at \notin {"idle", "failed"} => cover.request # <<>>
  /\ cover.request = <<>> \/ Asked("separate") \/ Asked("profile") \/ voice.profile # Refused
  /\ cover.request = <<>> \/ Asked("separate") \/ Asked("profile") \/ Asked("pitch")
       \/ cover.request.advanced \in Knobs
  /\ cover.at = "separate" => cover.request.cleanup \subseteq CleanupStep /\ ~Asked("profile") /\ ~Asked("pitch")
  /\ cover.at \in Rendering => ~Asked("separate")
  /\ cover.at \in Rendering \ {"analyze"} => ~Asked("profile")
  /\ cover.at \in Rendering \ {"analyze", "decide"} => ~Asked("pitch")

\* A request that nothing is asked of is one.
LEMMA NothingAsked ==
  ASSUME voice' \in Voices, cover'.request = <<>>, cover'.at \in {"idle", "failed"}
  PROVE  RequestKept'
<1>1. \A c : ~Asked(c)'
  BY DEF Asked
<1>2. cover'.at # "separate" /\ cover'.at \notin Rendering
  BY DEF Rendering
<1> QED
  BY <1>1, <1>2 DEF RequestKept

\* A cover that fails asks for nothing.
LEMMA FailedAsks ==
  ASSUME voice' \in Voices, NEW w, CoverFails(w)
  PROVE  RequestKept'
<1>1. cover'.request = <<>> /\ cover'.at = "failed"
  BY DEF CoverFails, NoCover
<1> QED
  BY <1>1, NothingAsked

\* A request that is not changed is kept from step to step.
LEMMA RequestOnward ==
  ASSUME RequestKept, UNCHANGED voice, cover'.request = cover.request, cover.at \notin {"idle", "failed"},
         \/ cover'.at = cover.at
         \/ cover.at = "separate" /\ cover'.at = "analyze" /\ ~Asked("separate")
         \/ cover.at = "analyze" /\ cover'.at = "decide" /\ ~Asked("profile")
         \/ cover.at = "decide" /\ cover'.at = "convert" /\ ~Asked("pitch")
         \/ cover.at \in Rendering \ {"analyze", "decide"} /\ cover'.at \in Rendering \ {"analyze"}
         \/ cover'.at \in {"written", "profiled", "advised"}
  PROVE  RequestKept'
<1>1. \A c : Asked(c)' <=> Asked(c)
  BY DEF Asked
<1>2. cover'.at \notin {"separate"} \/ cover'.at = cover.at
  BY DEF Rendering
<1>3. /\ cover'.at \in Rendering => ~Asked("separate")
      /\ cover'.at \in Rendering \ {"analyze"} => ~Asked("profile")
      /\ cover'.at \in Rendering \ {"analyze", "decide"} => ~Asked("pitch")
  BY DEF RequestKept, Rendering
<1>4. cover'.request # <<>>
  BY DEF RequestKept
<1>5. cover'.at = "separate" => cover'.request.cleanup \subseteq CleanupStep /\ ~Asked("profile") /\ ~Asked("pitch")
  BY <1>2 DEF RequestKept
<1>6. /\ voice' \in Voices
      /\ Asked("separate") \/ Asked("profile") \/ voice'.profile # Refused
      /\ Asked("separate") \/ Asked("profile") \/ Asked("pitch") \/ cover'.request.advanced \in Knobs
  BY <1>4 DEF RequestKept
<1> QED
  BY <1>1, <1>3, <1>4, <1>5, <1>6 DEF RequestKept

\* What is asked for is kept as it is asked.
LEMMA RequestBegins ==
  ASSUME RequestKept, Asking
  PROVE  RequestKept'
<1>1. UNCHANGED voice /\ voice \in Voices
  BY AskingStep DEF RequestKept
<1>2. ASSUME NEW w, CoverFails(w) PROVE RequestKept'
  BY <1>1, <1>2, FailedAsks
<1>3. ASSUME NEW r, r.cleanup \subseteq CleanupStep, r.advanced \in Knobs,
             "command" \in DOMAIN r, r.command \in {"cover", "convert"}, Request(r)
      PROVE  RequestKept'
  <2>1. CASE Begin(r) /\ voice.profile # Refused
    <3>1. cover'.at = "separate" /\ cover'.request = r
      BY <2>1 DEF Begin, NoCover
    <3>2. r # <<>>
      <4>1. "command" \notin DOMAIN <<>>
        OBVIOUS
      <4> QED
        BY <1>3, <4>1
    <3>3. ~Asked("profile")' /\ ~Asked("pitch")' /\ ~Asked("separate")'
      BY <1>3, <3>1 DEF Asked
    <3>4. cover'.at \notin Rendering
      BY <3>1 DEF Rendering
    <3> QED
      BY <1>1, <1>3, <2>1, <3>1, <3>2, <3>3, <3>4 DEF RequestKept
  <2> QED
    BY <1>2, <1>3, <2>1 DEF Request
<1>4. ASSUME NEW a, a.cleanup \subseteq CleanupStep, SeparateCommand(a) PROVE RequestKept'
  <2> DEFINE r == [command |-> "separate", level |-> a.quality, private |-> TRUE, cleanup |-> a.cleanup]
  <2>1. cover'.at = "separate" /\ cover'.request = r
    BY <1>4 DEF SeparateCommand, NoCover
  <2>2. r # <<>> /\ r.command = "separate" /\ r.cleanup = a.cleanup
    <3>1. "command" \in DOMAIN r /\ "command" \notin DOMAIN <<>>
      OBVIOUS
    <3> QED
      BY <3>1
  <2> HIDE DEF r
  <2>3. ~Asked("profile")' /\ ~Asked("pitch")' /\ Asked("separate")'
    BY <2>1, <2>2 DEF Asked
  <2>4. cover'.at \notin Rendering
    BY <2>1 DEF Rendering
  <2> QED
    BY <1>1, <1>4, <2>1, <2>2, <2>3, <2>4 DEF RequestKept
<1>5. ASSUME NEW a, Listen(a), a.command \in {"profile", "pitch"}, a.command = "pitch" => voice.profile # Refused
      PROVE  RequestKept'
  <2> DEFINE r == [command |-> a.command]
  <2>1. cover'.at = "analyze" /\ cover'.request = r
    BY <1>5 DEF Listen, NoCover
  <2>2. r # <<>> /\ r.command = a.command
    <3>1. "command" \in DOMAIN r /\ "command" \notin DOMAIN <<>>
      OBVIOUS
    <3> QED
      BY <3>1
  <2> HIDE DEF r
  <2>3. ~Asked("separate")' /\ (Asked("profile")' \/ Asked("pitch")') /\ (a.command = "profile" => Asked("profile")')
    BY <1>5, <2>1, <2>2 DEF Asked
  <2>4. cover'.at \notin Rendering \ {"analyze"} /\ cover'.at \notin Rendering \ {"analyze", "decide"} /\ cover'.at # "separate"
    BY <2>1
  <2> QED
    BY <1>1, <1>5, <2>1, <2>2, <2>3, <2>4 DEF RequestKept
<1>6. ASSUME NEW r \in Requests, Request(r) PROVE RequestKept'
  <2>1. r.cleanup \subseteq CleanupStep /\ r.advanced \in Knobs /\ "command" \in DOMAIN r /\ r.command \in {"cover", "convert"}
    BY RequestsAssumption
  <2> QED
    BY <1>3, <1>6, <2>1
<1>7. ASSUME NEW a \in Arguments, Command(a) PROVE RequestKept'
  <2>1. a.cleanup \subseteq CleanupStep /\ a.method \in STRING /\ a.playback \in STRING /\ a.ambience \in STRING
    BY ArgumentsAssumption
  <2>2. CASE ConvertCommand(a)
    <3> DEFINE knobs == [index_rate |-> 70, protect |-> 33, rms_mix_rate |-> 25, f0_method |-> a.method,
                         playback_strategy |-> a.playback, ambience_strategy |-> a.ambience, auto_tune |-> FALSE]
               r == [command |-> "convert", level |-> a.quality, preview |-> FALSE, private |-> a.private,
                     cleanup |-> {"dereverb"}, suffix |-> a.suffix, advanced |-> knobs]
    <3>1. Request(r)
      BY <2>2 DEF ConvertCommand
    <3>2. knobs \in Knobs
      BY <2>1 DEF Knobs
    <3> HIDE DEF knobs
    <3>3. r.cleanup \subseteq CleanupStep /\ r.advanced \in Knobs /\ "command" \in DOMAIN r /\ r.command = "convert"
      BY <3>2 DEF CleanupStep
    <3> HIDE DEF r
    <3> QED
      BY <1>3, <3>1, <3>3
  <2>3. CASE SeparateCommand(a)
    BY <1>4, <2>1, <2>3
  <2>4. CASE ProfileCommand(a) \/ PitchCommand(a)
    BY <1>5, <2>4 DEF ProfileCommand, PitchCommand
  <2> QED
    BY <1>7, <2>2, <2>3, <2>4 DEF Command
<1> QED
  BY <1>6, <1>7 DEF Asking

\* The decision, and what the user is told of it.
KeyKept ==
  /\ cover.curve \in Seq(Int)
  /\ cover.at \in {"convert", "measure", "mix"} => cover.decision # <<>>
  /\ cover.decision # <<>> => InStep(cover.decision)
  /\ "told" \in DOMAIN cover.result =>
       "remainder" \in DOMAIN cover.result /\ Says(cover.result.told, cover.result.remainder)

\* What is in bounds of a delivered variant.
Bounded(r, n) ==
  /\ {"gain", "variant", "retrieved"} \subseteq DOMAIN r
  /\ r.gain \in -9..9 /\ r.variant \in 1..n /\ r.retrieved.unsung <= r.retrieved.sung
GradeKept ==
  /\ cover.scores \in Seq(Int)
  /\ cover.at \in {"separate", "analyze"} => cover.scores = <<>>
  /\ cover.at \in {"deliver", "delivered"} => cover.scores # <<>>
  /\ cover.at \in Rendering /\ cover.scores # <<>> =>
       /\ Bounded(cover.result, Len(cover.scores)) /\ Len(cover.scores) <= Variants
       /\ cover.at \notin {"deliver", "delivered"} => Len(cover.scores) < Variants
Sound == RequestKept /\ KeyKept /\ GradeKept

\* Before a decision there is none.
LEMMA NoKey ==
  ASSUME cover'.curve = <<>>, cover'.decision = <<>>, cover'.result = <<>>, cover'.scores = <<>>,
         cover'.at \in {"idle", "failed", "separate", "analyze"}
  PROVE  KeyKept' /\ GradeKept'
<1>1. <<>> \in Seq(Int) /\ "told" \notin DOMAIN <<>>
  OBVIOUS
<1> QED
  BY <1>1 DEF KeyKept, GradeKept

\* A cover that fails is sound.
LEMMA FailedSound ==
  ASSUME voice' \in Voices, NEW w, CoverFails(w)
  PROVE  Sound'
<1>1. cover'.curve = <<>> /\ cover'.decision = <<>> /\ cover'.result = <<>> /\ cover'.scores = <<>> /\ cover'.at = "failed"
  BY DEF CoverFails, NoCover
<1> QED
  BY <1>1, NoKey, FailedAsks DEF Sound

\* Knobs, of whatever variant, are numbers.
LEMMA KnobsOf ==
  ASSUME NEW base \in Knobs, NEW i \in 1..4 PROVE CandidateGrid(base)[i] \in Knobs
<1> DEFINE g == CandidateGrid(base)
           a == [base EXCEPT !.index_rate = Min({100, @ + 15}), !.protect = Min({50, @ + 12})]
           b == [base EXCEPT !.index_rate = Max({0, @ - 20}), !.rms_mix_rate = Min({100, @ + 20})]
           c == [base EXCEPT !.protect = Max({0, @ - 13})]
<1>1. g = <<base, a, b, c>>
  BY DEF CandidateGrid
<1>2. base.index_rate \in Int /\ base.protect \in Int /\ base.rms_mix_rate \in Int
  BY DEF Knobs
<1>3. Min({100, base.index_rate + 15}) \in Int
  BY <1>2, MinTwo
<1>4. Min({50, base.protect + 12}) \in Int
  BY <1>2, MinTwo
<1>5. Max({0, base.index_rate - 20}) \in Int
  BY <1>2, MaxTwo
<1>6. Min({100, base.rms_mix_rate + 20}) \in Int
  BY <1>2, MinTwo
<1>7. Max({0, base.protect - 13}) \in Int
  BY <1>2, MaxTwo
<1>8. a \in Knobs
  BY <1>3, <1>4 DEF Knobs
<1>9. b \in Knobs
  BY <1>5, <1>6 DEF Knobs
<1>10. c \in Knobs
  BY <1>7 DEF Knobs
<1> HIDE DEF a, b, c, g
<1>11. i = 1 \/ i = 2 \/ i = 3 \/ i = 4
  OBVIOUS
<1>12. g[i] \in Knobs
  BY <1>1, <1>8, <1>9, <1>10, <1>11
<1> QED
  BY <1>12 DEF g

\* A value that is clipped is in bounds.
LEMMA Clipped ==
  ASSUME NEW x \in Int, NEW low \in Int, NEW high \in Int, low <= high
  PROVE  Clip(x, low, high) \in low..high
<1>1. Min({x, high}) = IF x <= high THEN x ELSE high
  BY MinTwo
<1>2. Min({x, high}) \in Int /\ Min({x, high}) <= high
  BY <1>1
<1> DEFINE m == Min({x, high})
<1> HIDE DEF m
<1>3. Max({low, m}) = IF low >= m THEN low ELSE m
  BY <1>2, MaxTwo DEF m
<1>4. Max({low, m}) \in low..high
  BY <1>2, <1>3 DEF m
<1> QED
  BY <1>4 DEF Clip, m

\* A share of what is retrieved is no more than it.
LEMMA Share ==
  ASSUME NEW blend \in 0..100, NEW p \in Int, p < 50
  PROVE  (blend * p) \div 100 <= blend
<1> DEFINE u == blend * p
<1>1. u \in Int /\ u <= 100 * blend
  <2>1. (100 - p) * blend >= 0 /\ (100 - p) * blend = 100 * blend - u
    OBVIOUS
  <2>2. u \in Int
    OBVIOUS
  <2> HIDE DEF u
  <2> QED
    BY <2>1, <2>2
<1> HIDE DEF u
<1>2. u \div 100 <= blend
  BY <1>1
<1> QED
  BY <1>2 DEF u

\* Where nothing is sung no more is retrieved than elsewhere.
LEMMA RetrievedLess ==
  ASSUME NEW index, NEW c \in Knobs
  PROVE  Retrieved(index, c).unsung <= Retrieved(index, c).sung
<1> DEFINE blend == BlendWithIndex(index, c.index_rate)
<1>1. c.index_rate \in Int /\ c.protect \in Int
  BY DEF Knobs
<1>2. blend \in 0..100
  <2>1. 0 \in Int /\ 100 \in Int /\ 0 <= 100
    OBVIOUS
  <2>2. Clip(c.index_rate, 0, 100) \in 0..100
    BY <1>1, <2>1, Clipped
  <2>3. 0 \in 0..100
    OBVIOUS
  <2> QED
    BY <2>2, <2>3 DEF BlendWithIndex
<1>3. Retrieved(index, c) = [sung |-> blend, unsung |-> IF c.protect >= 50 THEN blend ELSE (blend * c.protect) \div 100]
  BY DEF Retrieved
<1> HIDE DEF blend
<1>4. c.protect < 50 => (blend * c.protect) \div 100 <= blend
  BY <1>1, <1>2, Share
<1>5. (IF c.protect >= 50 THEN blend ELSE (blend * c.protect) \div 100) <= blend
  BY <1>1, <1>2, <1>4
<1> QED
  BY <1>3, <1>5

\* The gain is in bounds.
LEMMA GainBounded ==
  ASSUME NEW louder \in Int, NEW rate \in Int
  PROVE  MatchEnvelope(0, louder, rate) \in -9..9
<1> DEFINE b == BlendRms(0, louder, rate)
<1>1. b \in Int
  BY DEF BlendRms
<1> HIDE DEF b
<1>2. b - louder \in Int /\ -9 \in Int /\ 9 \in Int /\ -9 <= 9
  BY <1>1
<1>3. Clip(b - louder, -9, 9) \in -9..9
  BY <1>2, Clipped
<1> QED
  BY <1>3 DEF MatchEnvelope, b

\* There is a variant, and the first of them wins over none.
LEMMA FirstWins == ASSUME NEW s \in Int PROVE Winner(<<s>>) = 1
<1>1. Frames(<<s>>) = {1} /\ <<s>>[1] = s
  BY DEF Frames
<1>2. {1} \in SUBSET (0..1) /\ {1} # {} /\ \A i \in {1} : <<s>>[i] \in Int
  BY <1>1
<1>3. Best({1}, <<s>>) \in {1}
  BY <1>2, BestIs DEF Foremost
<1> QED
  BY <1>1, <1>3 DEF Winner

\* A curve that is resampled is a curve.
LEMMA Resampled ==
  ASSUME NEW src \in Seq(Int), NEW n \in Nat
  PROVE  ResampleF0(src, n) \in Seq(Int)
<1>1. CASE src = <<>>
  BY <1>1 DEF ResampleF0
<1>2. CASE src # <<>>
  <2> DEFINE m == Len(src)
             f(d) == [i \in 1..m |-> -Abs((2 * d - 1) * m - (2 * i - 1) * n)]
  <2>1. ResampleF0(src, n) = [d \in 1..n |-> src[Best(1..m, f(d))]]
    BY <1>2 DEF ResampleF0, Frames
  <2>2. m \in Nat /\ 1..m # {} /\ 1..m \in SUBSET (0..m) /\ \A i \in 1..m : src[i] \in Int
    <3>1. m \in Nat /\ m # 0 /\ \A i \in 1..m : src[i] \in Int
      BY <1>2
    <3> HIDE DEF m
    <3>2. 1 \in 1..m /\ \A i \in 1..m : i \in 0..m
      BY <3>1
    <3> QED
      BY <3>1, <3>2
  <2> HIDE DEF m
  <2>3. ASSUME NEW d \in 1..n PROVE src[Best(1..m, f(d))] \in Int
    <3>1. ASSUME NEW i \in 1..m PROVE f(d)[i] \in Int
      <4>1. (2 * d - 1) * m \in Int /\ (2 * i - 1) * n \in Int
        BY <2>2
      <4> DEFINE x == (2 * d - 1) * m - (2 * i - 1) * n
      <4>2. x \in Int
        BY <4>1
      <4> HIDE DEF x
      <4>3. -Abs(x) \in Int
        BY <4>2 DEF Abs
      <4> QED
        BY <4>3 DEF x
    <3> HIDE DEF f
    <3>2. Best(1..m, f(d)) \in 1..m
      BY <2>2, <3>1, BestIs DEF Foremost
    <3> QED
      BY <2>2, <3>2
  <2> HIDE DEF f
  <2> QED
    BY <2>1, <2>3
<1> QED
  BY <1>1, <1>2

\* What is heard of the vocal is a number for each frame.
LEMMA EnergyIs == Energy \in Seq(Nat) /\ (cover.curve \in Seq(Int) => Len(Energy) = Len(cover.curve))
BY DEF Energy, Frames

-----------------------------------------------------------------------------

\* One or four variants.
LEMMA VariantsAre == Variants \in {1, 4}
BY DEF Variants

\* A decision that is reached is in step.
LEMMA DecisionIs ==
  ASSUME cover.curve \in Seq(Int), FromF0(cover.curve, Energy) # Refused, voice.profile \in VoiceProfiles
  PROVE  LET d == DecideShift(FromF0(cover.curve, Energy), voice.profile) IN InStep(d) /\ d # <<>>
<1> DEFINE dist == FromF0(cover.curve, Energy)
           d == DecideShift(dist, voice.profile)
<1>1. Distribution(dist)
  BY EnergyIs, Distributed
<1>2. InStep(d)
  BY <1>1, Decided
<1>3. d # <<>>
  <2>1. "best" \in DOMAIN d /\ "best" \notin DOMAIN <<>>
    BY DEF DecideShift
  <2> QED
    BY <2>1
<1> QED
  BY <1>2, <1>3

\* The voice of a render has a profile.
LEMMA ProfileThere ==
  ASSUME RequestKept, cover.at \in Rendering \ {"analyze"}
  PROVE  voice.profile \in VoiceProfiles
<1>1. cover.request # <<>> /\ ~Asked("separate") /\ ~Asked("profile")
  BY DEF RequestKept, Rendering
<1> QED
  BY <1>1, VoicesAssumption DEF RequestKept

\* What of two records that are laid over each other comes from the first.
LEMMA WithFirst ==
  ASSUME NEW f, NEW g, NEW k
  PROVE  /\ k \in DOMAIN With(f, g) <=> k \in DOMAIN f \/ k \in DOMAIN g
         /\ k \in DOMAIN f /\ k \notin DOMAIN g => With(f, g)[k] = f[k]
BY DEF With

\* Nothing that is mixed or delivered says anything of the shift.
LEMMA MasterFields ==
  ASSUME NEW vocal, NEW playback, NEW returned
  PROVE  DOMAIN MixAndMaster(vocal, playback, returned) = {"frames", "channels", "loud"}
BY DEF MixAndMaster, FitLength, Buffer

\* A variant that is mixed.
LEMMA MixedSound ==
  ASSUME CoverFields, Sound, NEW returned, NEW score \in Scores, NEW louder \in Loudness,
         Mixed(returned, score, louder), UNCHANGED voice, cover.at = "mix"
  PROVE  Sound'
<1> DEFINE best  == cover.decision.best
           moved == ShiftPlayback(Playback, Split, Stems, best.remainder, returned)
           vocal == RepairArtifacts([ToMono(cover.stems["vocals"]) EXCEPT !.frames = Len(cover.out)])
           room  == ApplyAmbience(vocal, Layer, Config.ambience_strategy)
           whole == MixAndMaster(room, moved, returned)
           scores == Append(cover.scores, score)
           at == IF Len(scores) < Variants THEN "decide" ELSE "deliver"
           explained == ExplainDecision(cover.decision, voice.profile.quality_vs_shift # {})
           drawn == Retrieved(LoadIndex(voice.index, voice.faiss), Config)
           gained == MatchEnvelope(0, louder, Config.rms_mix_rate)
           told == [semitones |-> best.semitones, remainder |-> best.remainder,
                    told |-> explained,
                    correction |-> CorrectGlobalPitch(cover.error), variant |-> Len(scores),
                    layer |-> OriginalLayerGain(Layer, Config.ambience_strategy),
                    retrieved |-> drawn,
                    gain |-> gained]
           new == With(told, whole)
           result == IF Winner(scores) = Len(scores) THEN new ELSE cover.result
<1>0. RequestKept /\ KeyKept /\ GradeKept /\ voice' \in Voices
  BY DEF Sound, RequestKept
<1>1. CASE moved = Refused
  <2>1. CoverFails("TypeError")
    BY <1>1 DEF Mixed
  <2> QED
    BY <1>0, <2>1, FailedSound
<1>2. CASE moved # Refused
  <2>1. cover' = [cover EXCEPT !.at = at, !.scores = scores, !.out = <<>>, !.fed = <<>>, !.error = {}, !.result = result]
    BY <1>2 DEF Mixed
  <2>2. cover.scores \in Seq(Int) /\ score \in Int /\ louder \in Int
    BY <1>0, MeasuresAssumption DEF GradeKept
  <2>3. scores \in Seq(Int) /\ Len(scores) = Len(cover.scores) + 1 /\ scores # <<>>
    BY <2>2
  <2>4. (cover.scores = <<>> \/ Len(cover.scores) < Variants) /\ Variants \in {1, 4} /\ Len(cover.scores) \in Nat
    BY <1>0, <2>2, VariantsAre DEF GradeKept, Rendering
  <2>5. Len(scores) <= Variants /\ Len(scores) \in 1..4
    BY <2>3, <2>4
  <2>6. Config \in Knobs
    <3>1. cover.request # <<>> /\ ~Asked("separate") /\ ~Asked("profile") /\ ~Asked("pitch")
      BY <1>0 DEF RequestKept, Rendering
    <3>2. cover.request.advanced \in Knobs
      BY <1>0, <3>1 DEF RequestKept
    <3>3. Len(cover.scores) + 1 \in 1..4
      BY <2>3, <2>5
    <3> QED
      BY <3>2, <3>3, KnobsOf DEF Config
  <2>7. gained \in -9..9
    <3>1. Config.rms_mix_rate \in Int
      BY <2>6 DEF Knobs
    <3> QED
      BY <2>2, <3>1, GainBounded
  <2>8. drawn.unsung <= drawn.sung
    BY <2>6, RetrievedLess
  <2>9. InStep(cover.decision)
    BY <1>0 DEF KeyKept
  <2>10. Says(explained, best.remainder)
    BY <2>9, Told
  <2>11. DOMAIN whole = {"frames", "channels", "loud"}
    BY MasterFields
  <2> HIDE DEF moved, whole, gained, drawn, explained, scores
  <2>12. /\ new.gain = gained /\ new.variant = Len(scores) /\ new.retrieved = drawn
         /\ new.told = explained /\ new.remainder = best.remainder
         /\ {"gain", "variant", "retrieved", "remainder"} \subseteq DOMAIN new
    <3> DEFINE keys == {"semitones", "remainder", "told", "correction", "variant", "layer", "retrieved", "gain"}
    <3>1. DOMAIN told = keys
      OBVIOUS
    <3>2. told.gain = gained /\ told.variant = Len(scores) /\ told.retrieved = drawn
          /\ told.told = explained /\ told.remainder = best.remainder
      OBVIOUS
    <3> HIDE DEF told
    <3>3. \A k \in keys : k \in DOMAIN told /\ k \notin DOMAIN whole
      BY <2>11, <3>1
    <3>4. \A k \in keys : k \in DOMAIN new /\ new[k] = told[k]
      BY <3>3, WithFirst
    <3> HIDE DEF new
    <3> QED
      BY <3>2, <3>4
  <2> HIDE DEF new
  <2>13. Bounded(new, Len(scores))
    BY <2>5, <2>7, <2>8, <2>12 DEF Bounded
  <2>14. at \in {"decide", "deliver"} /\ (at = "decide" => Len(scores) < Variants)
    OBVIOUS
  <2> HIDE DEF at
  <2>15. result = new \/ (result = cover.result /\ cover.scores # <<>>)
    <3>1. CASE cover.scores # <<>>
      BY <3>1
    <3>2. CASE cover.scores = <<>>
      <4>1. scores = <<score>>
        BY <2>2, <3>2 DEF scores
      <4>2. Winner(scores) = 1 /\ Len(scores) = 1
        BY <2>2, <4>1, FirstWins
      <4> QED
        BY <4>2
    <3> QED
      BY <3>1, <3>2
  <2> HIDE DEF result
  <2>16. /\ cover'.at = at /\ cover'.scores = scores /\ cover'.result = result /\ cover'.request = cover.request
         /\ cover'.curve = cover.curve /\ cover'.decision = cover.decision
    BY <2>1 DEF CoverFields
  <2>17. RequestKept'
    <3>1. cover.at \in Rendering \ {"analyze", "decide"} /\ at \in Rendering \ {"analyze"} /\ cover.at \notin {"idle", "failed"}
      BY <2>14 DEF Rendering
    <3> QED
      BY <1>0, <2>16, <3>1, RequestOnward
  <2>18. KeyKept'
    <3>1. "told" \in DOMAIN result => "remainder" \in DOMAIN result /\ Says(result.told, result.remainder)
      BY <1>0, <2>10, <2>12, <2>15 DEF KeyKept
    <3> QED
      BY <1>0, <2>14, <2>16, <3>1 DEF KeyKept
  <2>19. Variants' = Variants
    BY <2>16 DEF Variants
  <2>20. Bounded(result, Len(scores))
    <3>1. CASE result = new
      BY <2>13, <3>1
    <3>2. CASE result = cover.result /\ cover.scores # <<>>
      <4>1. Bounded(cover.result, Len(cover.scores))
        BY <1>0, <3>2 DEF GradeKept, Rendering
      <4> QED
        BY <2>3, <2>4, <3>2, <4>1 DEF Bounded
    <3> QED
      BY <2>15, <3>1, <3>2
  <2>21. GradeKept'
    <3>1. cover'.at \notin {"separate", "analyze"} /\ scores # <<>>
      BY <2>3, <2>14, <2>16
    <3>2. cover'.at \notin {"deliver", "delivered"} => Len(scores) < Variants
      BY <2>14, <2>16
    <3> QED
      BY <2>3, <2>5, <2>16, <2>19, <2>20, <3>1, <3>2 DEF GradeKept
  <2> QED
    BY <2>17, <2>18, <2>21 DEF Sound
<1> QED
  BY <1>1, <1>2

\* A step that keeps the request, the scores and the result.
LEMMA GradeOnward ==
  ASSUME GradeKept, cover'.request = cover.request, cover'.scores = cover.scores, cover'.result = cover.result,
         \/ cover'.at = cover.at
         \/ cover.at \in {"separate", "analyze", "decide", "convert", "measure", "mix"}
            /\ cover'.at \in {"decide", "convert", "measure", "mix", "written"}
         \/ cover.at = "separate" /\ cover'.at = "analyze"
  PROVE  GradeKept'
<1>1. Variants' = Variants
  BY DEF Variants
<1>2. cover.at \in {"separate", "analyze"} => cover.scores = <<>>
  BY DEF GradeKept
<1> QED
  BY <1>1, <1>2 DEF GradeKept, Rendering

\* A step that keeps the curve, the decision and the result.
LEMMA KeyOnward ==
  ASSUME KeyKept, cover'.curve = cover.curve, cover'.decision = cover.decision, cover'.result = cover.result,
         \/ cover'.at = cover.at
         \/ cover'.at \notin {"convert", "measure", "mix"}
         \/ cover.at \in {"convert", "measure", "mix"}
  PROVE  KeyKept'
BY DEF KeyKept

\* A step of the work on the stems.
LEMMA WorkSound ==
  ASSUME CoverFields, HeldAlone, Sound, Working
  PROVE  Sound'
<1>0. RequestKept /\ KeyKept /\ GradeKept /\ voice' \in Voices /\ UNCHANGED voice
  BY WorkingStep DEF Sound, RequestKept
<1>1. ASSUME NEW w, CoverFails(w) PROVE Sound'
  BY <1>0, <1>1, FailedSound
<1>2. ASSUME UNCHANGED cover, cover.at \notin {"idle", "failed"} PROVE Sound'
  BY <1>0, <1>2, RequestOnward, KeyOnward, GradeOnward DEF Sound
<1>3. CASE ExtractorLoads \/ VoiceLoads
  BY <1>2, <1>3 DEF ExtractorLoads, VoiceLoads, At
<1>4. CASE ExtractorFails \/ VoiceFails \/ MixFails
  BY <1>1, <1>4 DEF ExtractorFails, VoiceFails, MixFails
<1>5. ASSUME NEW raw \in RawCurves, Extract(raw) PROVE Sound'
  <2> DEFINE c == ResampleF0(raw, Mix.frames)
  <2>1. cover' = [cover EXCEPT !.at = "decide", !.curve = c] /\ cover.at = "analyze" /\ ~Asked("profile")
    BY <1>5 DEF Extract, At
  <2>2. c \in Seq(Int)
    <3>1. raw \in Seq(Int) /\ Mix.frames \in Nat
      BY MeasuresAssumption, MixAssumption
    <3> QED
      BY <3>1, Resampled
  <2> HIDE DEF c
  <2>3. /\ cover'.at = "decide" /\ cover'.scores = cover.scores /\ cover'.result = cover.result
        /\ cover'.request = cover.request /\ cover'.curve = c /\ cover'.decision = cover.decision
    BY <2>1 DEF CoverFields
  <2>4. RequestKept'
    BY <1>0, <2>1, <2>3, RequestOnward
  <2>5. GradeKept'
    BY <1>0, <2>1, <2>3, GradeOnward
  <2>6. KeyKept'
    BY <1>0, <2>2, <2>3 DEF KeyKept
  <2> QED
    BY <2>4, <2>5, <2>6 DEF Sound
<1>6. ASSUME NEW raw \in RawCurves, Profile(raw) PROVE Sound'
  <2>1. CASE CoverFails("no pitch")
    BY <1>1, <2>1
  <2>2. ASSUME NEW p, cover' = [cover EXCEPT !.at = "profiled", !.curve = raw, !.result = [profile |-> p]]
        PROVE  Sound'
    <3>1. /\ cover'.at = "profiled" /\ cover'.scores = cover.scores /\ cover'.result = [profile |-> p]
          /\ cover'.request = cover.request /\ cover'.curve = raw /\ cover'.decision = cover.decision
      BY <2>2 DEF CoverFields
    <3>2. cover.at = "analyze"
      BY <1>6 DEF Profile, At
    <3>3. RequestKept'
      BY <1>0, <3>1, <3>2, RequestOnward
    <3>4. KeyKept'
      <4>1. "told" \notin DOMAIN cover'.result /\ raw \in Seq(Int)
        BY <3>1, MeasuresAssumption
      <4> QED
        BY <1>0, <3>1, <4>1 DEF KeyKept
    <3>5. GradeKept'
      BY <1>0, <3>1 DEF GradeKept, Rendering
    <3> QED
      BY <3>3, <3>4, <3>5 DEF Sound
  <2> QED
    BY <1>6, <2>1, <2>2 DEF Profile
<1>7. CASE Decide
  <2> DEFINE dist == FromF0(cover.curve, Energy)
             d == DecideShift(dist, voice.profile)
  <2>1. CASE dist = Refused
    BY <1>1, <1>7, <2>1 DEF Decide
  <2>2. CASE dist # Refused
    <3>1. cover' = [cover EXCEPT !.at = "convert", !.decision = d] /\ cover.at = "decide" /\ ~Asked("pitch")
      BY <1>7, <2>2 DEF Decide, At
    <3>2. InStep(d) /\ d # <<>>
      <4>1. voice.profile \in VoiceProfiles
        BY <1>0, <3>1, ProfileThere DEF Rendering
      <4> QED
        BY <1>0, <2>2, <4>1, DecisionIs DEF KeyKept
    <3> HIDE DEF d, dist
    <3>3. /\ cover'.at = "convert" /\ cover'.scores = cover.scores /\ cover'.result = cover.result
          /\ cover'.request = cover.request /\ cover'.curve = cover.curve /\ cover'.decision = d
      BY <3>1 DEF CoverFields
    <3>4. RequestKept'
      BY <1>0, <3>1, <3>3, RequestOnward
    <3>5. GradeKept'
      BY <1>0, <3>1, <3>3, GradeOnward
    <3>6. KeyKept'
      BY <1>0, <3>2, <3>3 DEF KeyKept
    <3> QED
      BY <3>4, <3>5, <3>6 DEF Sound
  <2> QED
    BY <2>1, <2>2
<1>8. CASE Advise
  <2> DEFINE dist == FromF0(cover.curve, Energy)
             d == DecideShift(dist, voice.profile)
             explained == ExplainDecision(d, voice.profile.quality_vs_shift # {})
             r == [remainder |-> d.best.remainder, told |-> explained]
  <2>1. CASE dist = Refused
    BY <1>1, <1>8, <2>1 DEF Advise
  <2>2. CASE dist # Refused
    <3>1. cover' = [cover EXCEPT !.at = "advised", !.decision = d, !.result = r] /\ cover.at = "decide"
      BY <1>8, <2>2 DEF Advise, At
    <3>2. InStep(d) /\ d # <<>>
      <4>1. voice.profile \in VoiceProfiles
        BY <1>0, <3>1, ProfileThere DEF Rendering
      <4> QED
        BY <1>0, <2>2, <4>1, DecisionIs DEF KeyKept
    <3> HIDE DEF d, dist
    <3>3. Says(explained, d.best.remainder)
      BY <3>2, Told
    <3> HIDE DEF explained
    <3>4. r.told = explained /\ r.remainder = d.best.remainder /\ "remainder" \in DOMAIN r
      OBVIOUS
    <3> HIDE DEF r
    <3>5. /\ cover'.at = "advised" /\ cover'.scores = cover.scores /\ cover'.result = r
          /\ cover'.request = cover.request /\ cover'.curve = cover.curve /\ cover'.decision = d
      BY <3>1 DEF CoverFields
    <3>6. RequestKept'
      BY <1>0, <3>1, <3>5, RequestOnward
    <3>7. GradeKept'
      BY <1>0, <3>5 DEF GradeKept, Rendering
    <3>8. KeyKept'
      BY <1>0, <3>2, <3>3, <3>4, <3>5 DEF KeyKept
    <3> QED
      BY <3>6, <3>7, <3>8 DEF Sound
  <2> QED
    BY <2>1, <2>2
<1>9. ASSUME NEW plan, NEW drift, Convert(plan, drift) PROVE Sound'
  <2>1. PICK o, f : cover' = [cover EXCEPT !.at = "measure", !.out = o, !.fed = f] /\ cover.at = "convert"
    BY <1>9 DEF Convert, At
  <2>2. /\ cover'.at = "measure" /\ cover'.scores = cover.scores /\ cover'.result = cover.result
        /\ cover'.request = cover.request /\ cover'.curve = cover.curve /\ cover'.decision = cover.decision
    BY <2>1 DEF CoverFields
  <2>3. cover.at \in Rendering \ {"analyze", "decide"} /\ cover'.at \in Rendering \ {"analyze"} /\ cover.at \notin {"idle", "failed"}
    BY <2>1, <2>2 DEF Rendering
  <2>4. RequestKept' /\ KeyKept' /\ GradeKept'
    BY <1>0, <2>1, <2>2, <2>3, RequestOnward, KeyOnward, GradeOnward
  <2> QED
    BY <2>4 DEF Sound
<1>10. ASSUME NEW off, Measure(off) PROVE Sound'
  <2>1. PICK e : cover' = [cover EXCEPT !.at = "mix", !.error = e] /\ cover.at = "measure"
    BY <1>10 DEF Measure, At
  <2>2. /\ cover'.at = "mix" /\ cover'.scores = cover.scores /\ cover'.result = cover.result
        /\ cover'.request = cover.request /\ cover'.curve = cover.curve /\ cover'.decision = cover.decision
    BY <2>1 DEF CoverFields
  <2>3. cover.at \in Rendering \ {"analyze", "decide"} /\ cover'.at \in Rendering \ {"analyze"} /\ cover.at \notin {"idle", "failed"}
    BY <2>1, <2>2 DEF Rendering
  <2>4. RequestKept' /\ KeyKept' /\ GradeKept'
    BY <1>0, <2>1, <2>2, <2>3, RequestOnward, KeyOnward, GradeOnward
  <2> QED
    BY <2>4 DEF Sound
<1>11. ASSUME NEW returned, NEW score \in Scores, NEW louder \in Loudness, Mixed(returned, score, louder) PROVE Sound'
  <2>1. cover.at = "mix"
    BY <1>11 DEF Mixed, At
  <2> QED
    BY <1>0, <1>11, <2>1, MixedSound
<1>12. CASE Deliver
  <2>1. PICK c : cover' = [cover EXCEPT !.at = "delivered", !.result = With(@, [codec |-> c])] /\ cover.at = "deliver"
    BY <1>12 DEF Deliver, At
  <2> DEFINE r == With(cover.result, [codec |-> c])
  <2>2. /\ cover'.at = "delivered" /\ cover'.scores = cover.scores /\ cover'.result = r
        /\ cover'.request = cover.request /\ cover'.curve = cover.curve /\ cover'.decision = cover.decision
    BY <2>1 DEF CoverFields
  <2>3. \A k : k # "codec" => (k \in DOMAIN r <=> k \in DOMAIN cover.result)
                             /\ (k \in DOMAIN cover.result => r[k] = cover.result[k])
    BY DEF With
  <2> HIDE DEF r
  <2>4. RequestKept'
    <3>1. cover.at \in Rendering \ {"analyze", "decide"} /\ cover'.at \in Rendering \ {"analyze"} /\ cover.at \notin {"idle", "failed"}
      BY <2>1, <2>2 DEF Rendering
    <3> QED
      BY <1>0, <2>2, <3>1, RequestOnward
  <2>5. KeyKept'
    BY <1>0, <2>2, <2>3 DEF KeyKept
  <2>6. GradeKept'
    <3>1. Variants' = Variants
      BY <2>2 DEF Variants
    <3>2. cover.scores # <<>> /\ Bounded(cover.result, Len(cover.scores)) /\ Len(cover.scores) <= Variants
      BY <1>0, <2>1 DEF GradeKept, Rendering
    <3>3. Bounded(r, Len(cover.scores))
      BY <2>3, <3>2 DEF Bounded
    <3> QED
      BY <1>0, <2>2, <3>1, <3>2, <3>3 DEF GradeKept
  <2> QED
    BY <2>4, <2>5, <2>6 DEF Sound
<1> QED
  BY <1>3, <1>4, <1>5, <1>6, <1>7, <1>8, <1>9, <1>10, <1>11, <1>12 DEF Working

-----------------------------------------------------------------------------

\* It begins so.
LEMMA InitSound == Init => Sound
<1>1. SUFFICES ASSUME Init PROVE Sound
  OBVIOUS
<1>2. cover = NoCover /\ voice \in Voices
  BY <1>1 DEF Init
<1>3. /\ cover.at = "idle" /\ cover.request = <<>> /\ cover.curve = <<>> /\ cover.decision = <<>>
      /\ cover.result = <<>> /\ cover.scores = <<>>
  BY <1>2 DEF NoCover
<1>4. \A c : ~Asked(c)
  BY <1>3 DEF Asked
<1>5. RequestKept
  BY <1>2, <1>3, <1>4 DEF RequestKept, Rendering
<1>6. <<>> \in Seq(Int) /\ "told" \notin DOMAIN <<>>
  OBVIOUS
<1> QED
  BY <1>3, <1>5, <1>6 DEF Sound, KeyKept, GradeKept

\* What is asked for is sound.
LEMMA AskSound ==
  ASSUME Sound, Asking
  PROVE  Sound'
<1>1. RequestKept'
  BY RequestBegins DEF Sound
<1>2. /\ cover'.curve = <<>> /\ cover'.decision = <<>> /\ cover'.result = <<>> /\ cover'.scores = <<>>
      /\ cover'.at \in {"idle", "failed", "separate", "analyze"}
  <2> DEFINE Fresh == /\ cover'.curve = <<>> /\ cover'.decision = <<>> /\ cover'.result = <<>> /\ cover'.scores = <<>>
                      /\ cover'.at \in {"idle", "failed", "separate", "analyze"}
  <2>1. ASSUME NEW w, CoverFails(w) PROVE Fresh
    BY <2>1 DEF CoverFails, NoCover
  <2>2. ASSUME NEW r, Request(r) PROVE Fresh
    <3>1. Begin(r) => Fresh
      BY DEF Begin, NoCover
    <3> HIDE DEF Fresh
    <3> QED
      BY <2>1, <2>2, <3>1 DEF Request
  <2>3. ASSUME NEW a, SeparateCommand(a) PROVE Fresh
    BY <2>3 DEF SeparateCommand, NoCover
  <2>4. ASSUME NEW a, Listen(a) PROVE Fresh
    BY <2>4 DEF Listen, NoCover
  <2> HIDE DEF Fresh
  <2>5. ASSUME NEW a, Command(a) PROVE Fresh
    <3>1. ConvertCommand(a) => \E r : Request(r)
      BY DEF ConvertCommand
    <3> QED
      BY <2>2, <2>3, <2>4, <2>5, <3>1 DEF Command, ProfileCommand, PitchCommand
  <2>6. Fresh
    BY <2>2, <2>5 DEF Asking
  <2> QED
    BY <2>6 DEF Fresh
<1> QED
  BY <1>1, <1>2, NoKey DEF Sound

\* A cover that nothing happens to stays sound.
LEMMA SameSound ==
  ASSUME Sound, UNCHANGED <<cover, voice>>
  PROVE  Sound'
<1>1. Variants' = Variants /\ \A c : Asked(c)' <=> Asked(c)
  BY DEF Variants, Asked
<1>2. RequestKept'
  BY <1>1 DEF Sound, RequestKept
<1>3. KeyKept'
  BY DEF Sound, KeyKept
<1>4. GradeKept'
  BY <1>1 DEF Sound, GradeKept
<1> QED
  BY <1>2, <1>3, <1>4 DEF Sound

\* Every step is sound.
LEMMA SoundStep == Lone /\ Sound /\ [Next]_vars => Sound'
<1>1. SUFFICES ASSUME Lone, Sound, [Next]_vars PROVE Sound'
  OBVIOUS
<1>2. CoverFields /\ HeldAlone /\ RequestKept /\ KeyKept /\ GradeKept
  BY <1>1 DEF Lone, Sound
<1>3. CASE UNCHANGED vars
  BY <1>1, <1>3, SameSound DEF vars
<1>4. CASE Asking
  BY <1>1, <1>4, AskSound
<1>5. CASE SeparateStarts
  <2>1. UNCHANGED <<cover, voice>>
    BY <1>5, StartStep
  <2> QED
    BY <1>1, <2>1, SameSound
<1>6. CASE SeparateRuns
  BY <1>1, <1>6, SameSound DEF SeparateRuns
<1>7. CASE SeparateEnds
  <2>1. UNCHANGED voice /\ voice' \in Voices /\ cover.at = "separate"
    BY <1>2, <1>7, EndStep DEF RequestKept
  <2>2. \/ \E w : CoverFails(w)
        \/ cover' = [cover EXCEPT !.at = "written", !.stems = sep.parts]
        \/ ~Asked("separate") /\ cover' = [cover EXCEPT !.at = "analyze", !.stems = sep.parts]
    BY <1>7 DEF SeparateEnds
  <2>3. CASE \E w : CoverFails(w)
    BY <2>1, <2>3, FailedSound
  <2>4. ASSUME NEW at \in {"written", "analyze"}, at = "analyze" => ~Asked("separate"),
               cover' = [cover EXCEPT !.at = at, !.stems = sep.parts]
        PROVE  Sound'
    <3>1. /\ cover'.at = at /\ cover'.scores = cover.scores /\ cover'.result = cover.result
          /\ cover'.request = cover.request /\ cover'.curve = cover.curve /\ cover'.decision = cover.decision
      BY <1>2, <2>4 DEF CoverFields
    <3>2. RequestKept'
      BY <1>2, <2>1, <2>4, <3>1, RequestOnward
    <3>3. KeyKept'
      BY <1>2, <2>4, <3>1, KeyOnward
    <3>4. GradeKept'
      BY <1>2, <2>1, <2>4, <3>1, GradeOnward
    <3> QED
      BY <3>2, <3>3, <3>4 DEF Sound
  <2> QED
    BY <2>2, <2>3, <2>4
<1>8. CASE Working
  BY <1>1, <1>2, <1>8, WorkSound
<1>9. CASE VerifyBackends
  <2>1. UNCHANGED <<cover, voice>>
    BY <1>9 DEF VerifyBackends
  <2> QED
    BY <1>1, <2>1, SameSound
<1>10. ASSUME NEW s, Analyze(s) PROVE Sound'
  <2>1. UNCHANGED <<cover, voice>>
    BY <1>10 DEF Analyze
  <2> QED
    BY <1>1, <2>1, SameSound
<1>11. Next \/ UNCHANGED vars
  BY <1>1
<1> QED
  BY <1>3, <1>4, <1>5, <1>6, <1>7, <1>8, <1>9, <1>10, <1>11, Steps

\* A cover is always sound.
LEMMA SoundAlways == Spec => []Sound
<1> QED
  BY InitSound, SoundStep, InitLone, LoneStep, PTL DEF Spec

\* InKey: whatever song and voice, whatever was measured of either, the singing
\* and the music are moved apart by whole octaves, the music by half an octave at
\* most; nothing that is offered costs less than the best and no two of the three
\* move the music alike; and the user is told of a move of the music exactly when
\* there is one (strategy.py, explain.py).
THEOREM KeptInKey == Spec => []InKey
<1>1. ASSUME Sound PROVE InKey
  <2>1. cover.decision # <<>> => InStep(cover.decision)
    BY <1>1 DEF Sound, KeyKept
  <2>2. "told" \in DOMAIN cover.result => Says(cover.result.told, cover.result.remainder)
    BY <1>1 DEF Sound, KeyKept
  <2> QED
    BY <2>1, <2>2, StepInKey DEF InKey, Says
<1> QED
  BY <1>1, SoundAlways, PTL

-----------------------------------------------------------------------------
(* TypeOK *)

\* The machine, the run and what a cover holds are what they can be.
MachineKept ==
  /\ present \in Hardware
  /\ sep.at \in {"idle", "model", "attempt", "combine", "cleanup", "separated", "failed", "over"}
  /\ sep.steps \subseteq CleanupStep
  /\ cover.at \in {"idle", "separate", "analyze", "decide", "convert", "measure", "mix", "deliver",
                   "delivered", "written", "profiled", "advised", "failed"}
  /\ cover.device \in ComputeBackend /\ held \subseteq Backends

\* It begins so.
LEMMA InitMachine == Init => MachineKept
<1>1. SUFFICES ASSUME Init PROVE MachineKept
  OBVIOUS
<1>2. cover = NoCover /\ sep = NoRun /\ held = {} /\ present \in Hardware
  BY <1>1 DEF Init, SepInit
<1>3. cover.at = "idle" /\ cover.device = "cpu"
  BY <1>2 DEF NoCover
<1>4. sep.at = "idle" /\ sep.steps = {}
  BY <1>2 DEF NoRun
<1> QED
  BY <1>2, <1>3, <1>4 DEF MachineKept, ComputeBackend

\* A device that is chosen is one.
LEMMA DeviceIs == ASSUME NEW m, NEW c, NEW i, NEW p PROVE DeviceForImplementation(m, c, i, p) \in ComputeBackend
<1>1. DeviceForImplementation(m, c, i, p) = Select(AllowedBackendsForImplementation(m[c], i), p)
  BY DEF DeviceForImplementation
<1>2. AllowedBackendsForImplementation(m[c], i) \subseteq ComputeBackend
  BY DEF AllowedBackendsForImplementation
<1>3. "cpu" \in ComputeBackend
  BY DEF ComputeBackend
<1> QED
  BY <1>1, <1>2, <1>3, Selected

\* A run goes from step to step, and leaves no cleanup that was not asked for.
LEMMA RunTyped ==
  ASSUME SepFields, CallKept, sep.steps \subseteq CleanupStep, Separating
  PROVE  /\ sep'.at \in {"idle", "model", "attempt", "combine", "cleanup", "separated", "failed", "over"}
         /\ sep'.steps \subseteq CleanupStep
<1> DEFINE Good == /\ sep'.at \in {"idle", "model", "attempt", "combine", "cleanup", "separated", "failed", "over"}
                   /\ sep'.steps \subseteq CleanupStep
<1>0. SUFFICES Good
  OBVIOUS
<1>1. ASSUME NEW w, Fails(w) PROVE Good
  BY <1>1 DEF Fails, NoRun
<1>2. ASSUME NEW f \in FreeMemory, Route(f) PROVE Good
  <2>1. PICK p : sep' = [sep EXCEPT !.at = "attempt", !.rungs = p, !.used = FALSE]
    BY <1>2 DEF Route
  <2> QED
    BY <2>1 DEF SepFields
<1>3. CASE AttemptSucceeds
  <2>1. PICK parts : sep' = [sep EXCEPT !.at = IF Len(sep.todo) = 1 THEN "combine" ELSE "model",
                          !.todo = Tail(@), !.rungs = <<>>, !.results = @ \cup {parts}]
    BY <1>3 DEF AttemptSucceeds
  <2>2. sep'.at \in {"combine", "model"} /\ sep'.steps = sep.steps
    BY <2>1 DEF SepFields
  <2> QED
    BY <2>2
<1>4. CASE AttemptRunsOut
  <2>1. CASE sep' = [sep EXCEPT !.rungs = Tail(@), !.used = TRUE]
    <3>1. sep'.at = sep.at /\ sep'.steps = sep.steps /\ sep.at = "attempt"
      BY <1>4, <2>1 DEF SepFields, AttemptRunsOut, RunsOut
    <3> QED
      BY <3>1
  <2> QED
    BY <1>1, <1>4, <2>1 DEF AttemptRunsOut, RunsOut
<1>5. CASE AttemptFails
  BY <1>1, <1>5 DEF AttemptFails
<1>6. CASE Combine
  <2> DEFINE combined == IF Cardinality(sep.results) > 1 THEN CombineStems(sep.results)
                         ELSE CHOOSE r \in sep.results : TRUE
             parts == [k \in DOMAIN combined |-> FitLength(combined[k], Mix.frames)]
  <2>1. \/ Fails("NO_VOCALS")
        \/ sep' = [sep EXCEPT !.at = "cleanup", !.results = {}, !.parts = parts,
                             !.steps = IF "vocals" \in DOMAIN parts THEN @ ELSE {}]
    BY <1>6 DEF Combine
  <2> HIDE DEF parts
  <2>2. CASE sep' = [sep EXCEPT !.at = "cleanup", !.results = {}, !.parts = parts,
                               !.steps = IF "vocals" \in DOMAIN parts THEN @ ELSE {}]
    <3>1. sep'.at = "cleanup" /\ sep'.steps \in {sep.steps, {}}
      BY <2>2 DEF SepFields
    <3> QED
      BY <3>1
  <2> QED
    BY <1>1, <2>1, <2>2
<1>7. ASSUME NEW parts, StepOver(parts), sep.at = "cleanup" PROVE Good
  <2>1. sep'.at = sep.at /\ sep'.steps = sep.steps \ {Step}
    BY <1>7 DEF StepOver, SepFields
  <2> QED
    BY <1>7, <2>1
<1> HIDE DEF Good
<1>8. CASE CleanupSkips \/ CleanupRuns \/ CleanupFails
  <2>1. CleanupRuns => sep.at = "cleanup" /\ \E parts : StepOver(parts)
    BY DEF CleanupRuns, Runnable
  <2>2. CleanupSkips \/ CleanupFails => sep.at = "cleanup" /\ StepOver(sep.parts)
    BY DEF CleanupSkips, CleanupFails, Runnable
  <2> QED
    BY <1>7, <1>8, <2>1, <2>2
<1>9. CASE CleanupRaises
  BY <1>1, <1>9 DEF CleanupRaises
<1>10. CASE CleanupEnds
  <2>1. sep' = [NoRun EXCEPT !.at = "separated", !.parts = sep.parts]
    BY <1>10 DEF CleanupEnds
  <2>2. sep'.at = "separated" /\ sep'.steps = {}
    BY <2>1 DEF NoRun
  <2> QED
    BY <2>2 DEF Good
<1>11. CASE Loads \/ HandsOver
  <2>1. sep' = sep /\ sep.at \in {"attempt", "cleanup"}
    BY <1>11 DEF Loads, HandsOver, Runnable, CallKept
  <2> QED
    BY <2>1 DEF Good
<1>12. CASE Interrupted
  BY <1>1, <1>12 DEF Interrupted
<1> QED
  BY <1>2, <1>3, <1>4, <1>5, <1>6, <1>8, <1>9, <1>10, <1>11, <1>12 DEF Separating

\* Where a step of the work leads.
LEMMA WorkAt ==
  ASSUME CoverFields, HeldAlone, Working
  PROVE  cover'.at \in {"analyze", "decide", "convert", "measure", "mix", "deliver",
                       "delivered", "written", "profiled", "advised", "failed"}
<1>1. ASSUME NEW w, CoverFails(w) PROVE cover'.at = "failed"
  BY <1>1, Failing
<1>2. cover.at \in {"analyze", "decide", "convert", "measure", "mix", "deliver"}
  BY WorkingStep
<1>3. ASSUME UNCHANGED cover PROVE cover'.at = cover.at
  BY <1>3
<1>4. CASE ExtractorLoads \/ VoiceLoads
  BY <1>2, <1>3, <1>4 DEF ExtractorLoads, VoiceLoads
<1>5. CASE ExtractorFails \/ VoiceFails \/ MixFails
  BY <1>1, <1>5 DEF ExtractorFails, VoiceFails, MixFails
<1>6. ASSUME NEW raw, Extract(raw) PROVE cover'.at = "decide"
  BY <1>6 DEF Extract, CoverFields
<1>7. ASSUME NEW raw, Profile(raw) PROVE cover'.at \in {"profiled", "failed"}
  <2>1. CoverFails("no pitch") \/ \E p : cover' = [cover EXCEPT !.at = "profiled", !.curve = raw, !.result = [profile |-> p]]
    BY <1>7 DEF Profile
  <2> QED
    BY <1>1, <2>1 DEF CoverFields
<1>8. CASE Decide
  <2>1. CoverFails("no pitch") \/ \E d : cover' = [cover EXCEPT !.at = "convert", !.decision = d]
    BY <1>8 DEF Decide
  <2> QED
    BY <1>1, <2>1 DEF CoverFields
<1>9. CASE Advise
  <2>1. CoverFails("no pitch") \/ \E d, r : cover' = [cover EXCEPT !.at = "advised", !.decision = d, !.result = r]
    BY <1>9 DEF Advise
  <2> QED
    BY <1>1, <2>1 DEF CoverFields
<1>10. ASSUME NEW plan, NEW drift, Convert(plan, drift) PROVE cover'.at = "measure"
  <2>1. PICK o, f : cover' = [cover EXCEPT !.at = "measure", !.out = o, !.fed = f]
    BY <1>10 DEF Convert
  <2> QED
    BY <2>1 DEF CoverFields
<1>11. ASSUME NEW off, Measure(off) PROVE cover'.at = "mix"
  <2>1. PICK e : cover' = [cover EXCEPT !.at = "mix", !.error = e]
    BY <1>11 DEF Measure
  <2> QED
    BY <2>1 DEF CoverFields
<1>12. ASSUME NEW returned, NEW score, NEW louder, Mixed(returned, score, louder)
       PROVE  cover'.at \in {"decide", "deliver", "failed"}
  <2>1. \/ CoverFails("TypeError")
        \/ \E at \in {"decide", "deliver"} : \E s, r :
             cover' = [cover EXCEPT !.at = at, !.scores = s, !.out = <<>>, !.fed = <<>>, !.error = {}, !.result = r]
    BY <1>12, MixedStep
  <2> QED
    BY <1>1, <2>1 DEF CoverFields
<1>13. CASE Deliver
  <2>1. PICK r : cover' = [cover EXCEPT !.at = "delivered", !.result = r]
    BY <1>13 DEF Deliver
  <2> QED
    BY <2>1 DEF CoverFields
<1> QED
  BY <1>4, <1>5, <1>6, <1>7, <1>8, <1>9, <1>10, <1>11, <1>12, <1>13 DEF Working

\* What a step of the work holds.
LEMMA WorkHeld ==
  ASSUME held \subseteq Backends, cover.device \in ComputeBackend, Working
  PROVE  held' \subseteq Backends
<1>1. F0Model \in Backends
  BY DEF F0Model, Backends, ComputeBackend, Component
<1>2. [component |-> "conversion", implementation |-> "rvc", backend |-> cover.device] \in Backends
  BY DEF Backends, Component
<1>3. held' \in {held, {}, {F0Model}, {[component |-> "conversion", implementation |-> "rvc", backend |-> cover.device]}}
  BY DEF Working, ExtractorLoads, ExtractorFails, Extract, Profile, Decide, Advise, VoiceLoads, VoiceFails,
         Convert, Measure, Mixed, MixFails, Deliver
<1> QED
  BY <1>1, <1>2, <1>3

\* Every step keeps them so.
LEMMA MachineStep == Lone /\ Sound /\ MachineKept /\ [Next]_vars => MachineKept'
<1>1. SUFFICES ASSUME Lone, Sound, MachineKept, [Next]_vars PROVE MachineKept'
  OBVIOUS
<1>2. CoverFields /\ SepFields /\ CallKept /\ HeldAlone /\ RequestKept
  BY <1>1 DEF Lone, Sound
<1>3. CASE UNCHANGED vars
  BY <1>1, <1>3 DEF vars, sepVars, MachineKept, Backends
<1>4. CASE Asking
  <2>1. /\ UNCHANGED <<sepVars, voice, held, report>> /\ cover'.at \in {"separate", "analyze", "failed"}
        /\ cover'.device \in {"cpu", DeviceForImplementation(matrix, "f0", "torchfcpe", present)}
    BY <1>4, AskingStep
  <2>2. cover'.device \in ComputeBackend
    BY <2>1, DeviceIs DEF ComputeBackend
  <2> QED
    BY <1>1, <2>1, <2>2 DEF sepVars, MachineKept, Backends
<1>5. CASE SeparateStarts
  <2>1. UNCHANGED <<evidence, present, call, loaded, voice, cover, held, report>> /\ cover.at = "separate"
        /\ sep'.at \in {"model", "failed"}
    BY <1>5, StartStep
  <2>2. ASSUME NEW w, Fails(w) PROVE sep'.steps = {}
    BY <2>2 DEF Fails, NoRun
  <2>3. ASSUME NEW l, NEW p, NEW s, Start(l, p, s) PROVE sep'.steps \in {{}, s}
    <3>1. CASE sep' = [NoRun EXCEPT !.at = "model", !.private = p, !.profile = PROFILES[l],
                                    !.todo = ResolveModels(PROFILES[l], p), !.steps = s]
      BY <3>1 DEF NoRun
    <3> QED
      BY <2>2, <2>3, <3>1 DEF Start
  <2>4. cover.request.cleanup \subseteq CleanupStep
    BY <1>2, <2>1 DEF RequestKept
  <2>5. StartFails => \E w : Fails(w)
    BY DEF StartFails
  <2>6. sep'.steps \subseteq CleanupStep
    BY <1>5, <2>2, <2>3, <2>4, <2>5 DEF SeparateStarts
  <2> QED
    BY <1>1, <2>1, <2>6 DEF MachineKept, Backends
<1>6. CASE SeparateRuns
  <2>1. Separating /\ UNCHANGED <<voice, cover, held, report>>
    BY <1>6 DEF SeparateRuns
  <2>2. UNCHANGED present
    BY <1>2, <2>1, RunStep
  <2>3. /\ sep'.at \in {"idle", "model", "attempt", "combine", "cleanup", "separated", "failed", "over"}
        /\ sep'.steps \subseteq CleanupStep
    BY <1>1, <1>2, <2>1, RunTyped DEF MachineKept
  <2> QED
    BY <1>1, <2>1, <2>2, <2>3 DEF MachineKept, Backends
<1>7. CASE SeparateEnds
  <2>1. UNCHANGED <<evidence, present, call, loaded, voice, held, report>>
        /\ cover'.at \in {"failed", "written", "analyze"} /\ cover'.device \in {cover.device, "cpu"}
    BY <1>2, <1>7, EndStep
  <2>2. sep' = [NoRun EXCEPT !.at = "over"]
    BY <1>7 DEF SeparateEnds
  <2>3. sep'.at = "over" /\ sep'.steps = {}
    BY <2>2 DEF NoRun
  <2> QED
    BY <1>1, <2>1, <2>3 DEF MachineKept, Backends, ComputeBackend
<1>8. CASE Working
  <2>1. /\ UNCHANGED <<sepVars, voice, report>> /\ Onward /\ cover.at # "failed"
    BY <1>2, <1>8, WorkingStep
  <2>2. cover'.device \in ComputeBackend
    BY <1>1, <2>1 DEF Onward, MachineKept, ComputeBackend
  <2>3. cover'.at \in {"analyze", "decide", "convert", "measure", "mix", "deliver",
                       "delivered", "written", "profiled", "advised", "failed"}
    BY <1>2, <1>8, WorkAt
  <2>4. held' \subseteq Backends
    BY <1>1, <1>2, <1>8, WorkHeld DEF MachineKept
  <2> QED
    BY <1>1, <2>1, <2>2, <2>3, <2>4 DEF sepVars, MachineKept
<1>9. CASE VerifyBackends
  <2>1. UNCHANGED <<present, sep, cover, held>>
    BY <1>9 DEF VerifyBackends, Verify, VerifyTorn
  <2> QED
    BY <1>1, <2>1 DEF MachineKept, Backends
<1>10. ASSUME NEW s, Analyze(s) PROVE MachineKept'
  <2>1. UNCHANGED <<present, sep, cover, held>>
    BY <1>10 DEF Analyze, sepVars
  <2> QED
    BY <1>1, <2>1 DEF MachineKept, Backends
<1>11. Next \/ UNCHANGED vars
  BY <1>1
<1> QED
  BY <1>3, <1>4, <1>5, <1>6, <1>7, <1>8, <1>9, <1>10, <1>11, Steps

-----------------------------------------------------------------------------
(* What is reported of a song: ReportsTheSong *)

\* A run of frames as its ends say.
LEMMA RunIs ==
  ASSUME NEW n \in Nat, NEW set \in SUBSET (1..n), NEW r \in Runs(set)
  PROVE  /\ r[1] \in 0..(n - 1) /\ r[2] \in 1..n /\ r[1] < r[2] /\ (r[1] + 1)..r[2] \subseteq set
         /\ r[1] \notin set /\ r[2] + 1 \notin set
<1>1. r \in {i - 1 : i \in set} \X set /\ r[1] < r[2] /\ (r[1] + 1)..r[2] \subseteq set
      /\ r[1] \notin set /\ r[2] + 1 \notin set
  BY DEF Runs
<1>2. r[1] \in {i - 1 : i \in set} /\ r[2] \in set
  BY <1>1
<1>3. PICK i \in set : r[1] = i - 1
  BY <1>2
<1>4. r[1] \in 0..(n - 1)
  BY <1>3
<1> QED
  BY <1>1, <1>2, <1>4

\* A stretch of singing begins and ends with a frame of the mask, and is apart from
\* the next by more than what is bridged.
LEMMA Stretches ==
  ASSUME NEW n \in Nat, NEW mask \in SUBSET (1..n), NEW bridge \in Nat
  PROVE  /\ \A g \in Runs(Bridged(mask, n, bridge)) : g[1] + 1 \in mask /\ g[2] \in mask
         /\ \A g, h \in Runs(Bridged(mask, n, bridge)) : g[1] < h[1] => h[1] - g[2] > bridge
<1> DEFINE rest == (1..n) \ mask
           G == {r \in Runs(rest) : r[1] > 0 /\ r[2] < n /\ r[2] - r[1] <= bridge}
           B == Bridged(mask, n, bridge)
<1>1. B = mask \cup UNION {(g[1] + 1)..g[2] : g \in G}
  BY DEF Bridged, Fill
<1>2. rest \in SUBSET (1..n)
  OBVIOUS
<1>3. ASSUME NEW r \in G
      PROVE  /\ r[1] \in 1..n /\ r[2] \in 1..n /\ r[1] < r[2]
             /\ r[1] \in mask /\ r[2] + 1 \in mask /\ (r[1] + 1)..r[2] \subseteq B
  <2>1. r \in Runs(rest) /\ r[1] > 0 /\ r[2] < n
    OBVIOUS
  <2> HIDE DEF G, B, rest
  <2>2. r[1] \in 0..(n - 1) /\ r[2] \in 1..n /\ r[1] < r[2] /\ r[1] \notin rest /\ r[2] + 1 \notin rest
    BY <1>2, <2>1, RunIs
  <2>3. r[1] \in 1..n /\ r[2] + 1 \in 1..n
    BY <2>1, <2>2
  <2>4. r[1] \in mask /\ r[2] + 1 \in mask
    BY <2>2, <2>3 DEF rest
  <2>5. (r[1] + 1)..r[2] \subseteq B
    BY <1>1
  <2> QED
    BY <2>2, <2>3, <2>4, <2>5
<1>4. ASSUME NEW j \in B, j \notin mask PROVE \E r \in G : j \in (r[1] + 1)..r[2]
  <2> HIDE DEF G, B
  <2> QED
    BY <1>1, <1>4
<1>5. mask \subseteq B
  BY <1>1
<1> HIDE DEF B
<1>6. B \in SUBSET (1..n)
  <2>1. ASSUME NEW j \in B PROVE j \in 1..n
    <3>1. CASE j \in mask
      BY <3>1
    <3>2. CASE j \notin mask
      <4>1. PICK r \in G : j \in (r[1] + 1)..r[2]
        BY <1>4, <3>2
      <4>2. r[1] \in 1..n /\ r[2] \in 1..n
        BY <1>3
      <4> HIDE DEF G
      <4> QED
        BY <4>1, <4>2
    <3> QED
      BY <3>1, <3>2
  <2> QED
    BY <2>1
<1> HIDE DEF G
<1>7. ASSUME NEW g \in Runs(B)
      PROVE  /\ g[1] \in 0..(n - 1) /\ g[2] \in 1..n /\ g[1] < g[2] /\ (g[1] + 1)..g[2] \subseteq B
             /\ g[1] \notin B /\ g[2] + 1 \notin B
  BY <1>6, RunIs
<1>8. ASSUME NEW g \in Runs(B) PROVE g[1] + 1 \in mask
  <2>1. SUFFICES ASSUME g[1] + 1 \notin mask PROVE FALSE
    OBVIOUS
  <2>2. g[1] + 1 \in B /\ g[1] \in Nat
    BY <1>7
  <2>3. PICK r \in G : g[1] + 1 \in (r[1] + 1)..r[2]
    BY <1>4, <2>1, <2>2
  <2>4. r[1] \in 1..n /\ r[2] \in 1..n /\ r[1] \in B /\ (r[1] + 1)..r[2] \subseteq B
    BY <1>3, <1>5
  <2>5. g[1] = r[1] \/ g[1] \in (r[1] + 1)..r[2]
    BY <2>2, <2>3, <2>4
  <2> QED
    BY <1>7, <2>4, <2>5
<1>9. ASSUME NEW g \in Runs(B) PROVE g[2] \in mask
  <2>1. SUFFICES ASSUME g[2] \notin mask PROVE FALSE
    OBVIOUS
  <2>2. g[2] \in B /\ g[2] \in 1..n
    BY <1>7
  <2>3. PICK r \in G : g[2] \in (r[1] + 1)..r[2]
    BY <1>4, <2>1, <2>2
  <2>4. r[1] \in 1..n /\ r[2] \in 1..n /\ r[2] + 1 \in B /\ (r[1] + 1)..r[2] \subseteq B
    BY <1>3, <1>5
  <2>5. g[2] = r[2] \/ g[2] + 1 \in (r[1] + 1)..r[2]
    BY <2>2, <2>3, <2>4
  <2> QED
    BY <1>7, <2>4, <2>5
<1>10. ASSUME NEW g \in Runs(B), NEW h \in Runs(B), g[1] < h[1] PROVE h[1] - g[2] > bridge
  <2>1. /\ g[1] \in 0..(n - 1) /\ g[2] \in 1..n /\ h[1] \in 0..(n - 1)
        /\ h[1] \notin B /\ g[2] + 1 \notin B /\ (g[1] + 1)..g[2] \subseteq B
        /\ h[1] + 1 \in mask /\ g[2] \in mask
    BY <1>7, <1>8, <1>9
  <2>2. g[2] < h[1]
    BY <1>10, <2>1
  <2> DEFINE T == {m \in mask : g[2] < m}
  <2>3. h[1] + 1 \in T
    BY <2>1, <2>2
  <2>4. PICK m \in T : \A k \in T : m <= k
    <3>1. ASSUME NEW k \in T PROVE k \in Nat
      <4>1. k \in mask
        OBVIOUS
      <4> QED
        BY <4>1
    <3> HIDE DEF T
    <3> QED
      BY <2>3, <3>1, Least
  <2>5. m \in mask /\ m \in 1..n /\ g[2] < m /\ m <= h[1] + 1
    BY <2>3, <2>4
  <2>6. m # g[2] + 1
    BY <1>5, <2>1, <2>5
  <2>7. m - 1 \in 1..n /\ g[2] + 1 \in 1..n /\ g[2] < m - 1 /\ m - 1 < n
    BY <2>1, <2>5, <2>6
  <2>8. (g[2] + 1)..(m - 1) \subseteq rest
    <3>1. ASSUME NEW k \in (g[2] + 1)..(m - 1) PROVE k \in rest
      <4>1. k \in 1..n /\ g[2] < k /\ ~(m <= k)
        BY <2>1, <2>5, <2>7
      <4>2. k \notin T
        BY <2>4, <4>1
      <4> QED
        BY <4>1, <4>2
    <3> QED
      BY <3>1
  <2>9. <<g[2], m - 1>> \in Runs(rest)
    <3>1. g[2] + 1 \in rest /\ m - 1 \in rest
      <4>1. g[2] + 1 \in (g[2] + 1)..(m - 1) /\ m - 1 \in (g[2] + 1)..(m - 1)
        BY <2>1, <2>5, <2>7
      <4> QED
        BY <2>8, <4>1
    <3>2. g[2] \in {i - 1 : i \in rest}
      BY <2>1, <3>1
    <3>3. g[2] \notin rest /\ (m - 1) + 1 \notin rest
      BY <2>1, <2>5
    <3> HIDE DEF rest
    <3> QED
      BY <2>7, <2>8, <3>1, <3>2, <3>3 DEF Runs
  <2>10. ASSUME (m - 1) - g[2] <= bridge PROVE FALSE
    <3>1. <<g[2], m - 1>> \in G
      BY <2>1, <2>7, <2>9, <2>10 DEF G
    <3>2. g[2] + 1 \in (g[2] + 1)..(m - 1)
      BY <2>1, <2>7
    <3>3. (g[2] + 1)..(m - 1) \subseteq B
      BY <1>3, <3>1
    <3> QED
      BY <2>1, <3>2, <3>3
  <2> QED
    BY <2>1, <2>5, <2>10
<1> QED
  BY <1>8, <1>9, <1>10 DEF B

\* What is said to be singing of a curve begins and ends with a voiced frame, and
\* is apart from the next by more than a breath.
LEMMA Segments ==
  ASSUME NEW curve, Len(curve) \in Nat, NEW energy, NEW bridge \in Nat, NEW shortest
  PROVE  LET S == FindVoicedSegments(curve, energy, bridge, shortest) IN
         /\ \A g \in S : g[2] <= Len(curve) /\ Voiced(curve[g[1] + 1]) /\ Voiced(curve[g[2]])
         /\ \A g, h \in S : g[1] < h[1] => h[1] - g[2] > bridge
<1> DEFINE mask == VoicedMask(curve, energy)
           n == Len(curve)
           S == FindVoicedSegments(curve, energy, bridge, shortest)
           R == Runs(Bridged(mask, n, bridge))
<1>1. mask \in SUBSET (1..n) /\ \A i \in mask : Voiced(curve[i])
  BY DEF VoicedMask, Frames
<1>2. S \subseteq R
  BY DEF FindVoicedSegments
<1> HIDE DEF mask
<1>3. /\ \A g \in R : g[1] + 1 \in mask /\ g[2] \in mask
      /\ \A g, h \in R : g[1] < h[1] => h[1] - g[2] > bridge
  <2> HIDE DEF n
  <2> n \in Nat
    BY DEF n
  <2> QED
    BY <1>1, Stretches
<1> HIDE DEF R, S
<1>4. ASSUME NEW g \in S PROVE g[2] <= n /\ Voiced(curve[g[1] + 1]) /\ Voiced(curve[g[2]])
  <2>1. g[1] + 1 \in mask /\ g[2] \in mask
    BY <1>2, <1>3
  <2>2. Voiced(curve[g[1] + 1]) /\ Voiced(curve[g[2]])
    BY <1>1, <2>1
  <2>3. g[2] \in 1..n
    BY <1>1, <2>1
  <2> QED
    BY <2>2, <2>3
<1>5. \A g, h \in S : g[1] < h[1] => h[1] - g[2] > bridge
  BY <1>2, <1>3
<1> QED
  BY <1>4, <1>5 DEF S

\* Some frames of a song are a number of them.
LEMMA FramesCounted ==
  ASSUME NEW n \in Nat, NEW S \in SUBSET (0..n)
  PROVE  IsFiniteSet(S) /\ Cardinality(S) \in Nat /\ Cardinality(S) <= n + 1
<1>1. IsFiniteSet(0..n) /\ Cardinality(0..n) = n + 1
  BY FS_Interval
<1>2. IsFiniteSet(S) /\ Cardinality(S) <= n + 1
  BY <1>1, FS_Subset
<1> QED
  BY <1>2, FS_CardinalityType

\* A window begins where one of its length still fits, and there is one.
LEMMA WindowsFit ==
  ASSUME NEW n \in Nat, NEW win \in Nat, win <= n, NEW stride
  PROVE  WindowStarts(n, win, stride) \in SUBSET (0..(n - win)) /\ WindowStarts(n, win, stride) # {}
<1>1. CASE n <= win
  BY <1>1 DEF WindowStarts
<1>2. CASE ~(n <= win)
  <2>1. WindowStarts(n, win, stride) = {s \in 0..(n - win) : s % stride = 0 \/ s = n - win}
    BY <1>2 DEF WindowStarts
  <2>2. n - win \in 0..(n - win)
    BY <1>2
  <2> QED
    BY <2>1, <2>2
<1> QED
  BY <1>1, <1>2

\* How steadily some frames are sung is a number.
LEMMA StabilityIs ==
  ASSUME NEW curve \in Seq(Int), NEW sung \in SUBSET (1..Len(curve))
  PROVE  Stability(curve, sung) \in Int
<1> DEFINE L == Len(curve)
           n == Cardinality(sung)
           After(i) == {j \in sung : i < j}
           e(i) == IF After(i) = {} THEN 0 ELSE Abs(curve[Min(After(i))] - curve[i])
           E == [i \in 1..L |-> e(i)]
           steps == WeightOf(sung, E)
<1>1. L \in Nat /\ \A i \in 1..L : curve[i] \in Int
  OBVIOUS
<1>2. Stability(curve, sung) = IF n < 2 THEN 0 ELSE (100 * (n - 1)) \div (n - 1 + steps)
  BY DEF Stability, Frames
<1>3. n \in Nat
  <2>1. sung \in SUBSET (0..L)
    OBVIOUS
  <2> HIDE DEF L
  <2> QED
    BY <1>1, <2>1, FramesCounted
<1> HIDE DEF n
<1>4. ASSUME NEW i \in 1..L PROVE e(i) \in Nat
  <2>1. CASE After(i) = {}
    BY <2>1
  <2>2. CASE After(i) # {}
    <3>1. \A j \in After(i) : j \in 1..L /\ j \in Nat
      <4>1. \A j \in After(i) : j \in sung
        OBVIOUS
      <4>2. \A j \in sung : j \in 1..L /\ j \in Nat
        OBVIOUS
      <4> HIDE DEF After, L
      <4> QED
        BY <4>1, <4>2
    <3> DEFINE O == After(i)
    <3>2. \E m \in O : \A k \in O : m <= k
      <4>1. O \subseteq Nat /\ O # {}
        BY <2>2, <3>1
      <4> HIDE DEF O
      <4> QED
        BY <4>1, Least
    <3>3. Min(O) \in O
      <4> HIDE DEF O
      <4> QED
        BY <3>2 DEF Min
    <3>4. Min(O) \in 1..L
      BY <3>1, <3>3
    <3> HIDE DEF O
    <3> DEFINE x == curve[Min(O)] - curve[i]
    <3>5. x \in Int
      BY <1>1, <3>4
    <3> HIDE DEF x
    <3>6. Abs(x) \in Nat
      BY <3>5 DEF Abs
    <3> QED
      BY <2>2, <3>6 DEF x, O
  <2> QED
    BY <2>1, <2>2
<1> HIDE DEF e
<1>5. E \in Seq(Nat) /\ Len(E) = L /\ \A i \in 1..L : E[i] \in Nat
  <2>1. E \in [1..L -> Nat]
    BY <1>4
  <2> HIDE DEF L, E
  <2> QED
    BY <1>1, <2>1
<1> HIDE DEF E
<1>6. steps \in Nat
  BY <1>1, <1>5, WeightIs
<1> HIDE DEF steps
<1>7. CASE n < 2
  BY <1>2, <1>7
<1>8. CASE ~(n < 2)
  <2> DEFINE u == 100 * (n - 1)  v == n - 1 + steps
  <2>1. u \in Int /\ v \in Nat \ {0}
    BY <1>3, <1>6, <1>8
  <2>2. Stability(curve, sung) = u \div v
    BY <1>2, <1>8
  <2> HIDE DEF u, v
  <2> QED
    BY <2>1, <2>2
<1> QED
  BY <1>7, <1>8

\* How widely some frames are sung is a number.
LEMMA WidthIs ==
  ASSUME NEW curve \in Seq(Int), NEW sung \in SUBSET (1..Len(curve))
  PROVE  Width(curve, sung) \in Int
<1> DEFINE L == Len(curve)
           n == Cardinality(sung)
           points == {<<100 * Cardinality(Lower(sung, curve, i)), curve[i]>> : i \in sung}
           P(percent) == Interp(percent * (n - 1), points)
<1>1. L \in Nat /\ \A i \in 1..L : curve[i] \in Int
  OBVIOUS
<1>2. Width(curve, sung) = IF n < 2 THEN 0 ELSE P(95) - P(5)
  BY DEF Width
<1>3. IsFiniteSet(sung) /\ n \in Nat /\ \A i : Cardinality(Lower(sung, curve, i)) \in Nat
  <2>1. sung \in SUBSET (0..L)
    <3>1. \A j \in sung : j \in 0..L
      OBVIOUS
    <3> QED
      BY <3>1
  <2>2. \A i : Lower(sung, curve, i) \subseteq sung
    BY DEF Lower
  <2> HIDE DEF L
  <2>3. \A i : Lower(sung, curve, i) \in SUBSET (0..L)
    BY <2>1, <2>2
  <2> QED
    BY <1>1, <2>1, <2>3, FramesCounted
<1>4. points \in SUBSET (Int \X Int)
  <2>1. ASSUME NEW i \in sung PROVE 100 * Cardinality(Lower(sung, curve, i)) \in Int /\ curve[i] \in Int
    BY <1>1, <1>3
  <2> QED
    BY <2>1
<1>5. n # 0 => points # {}
  BY FS_EmptySet
<1> HIDE DEF n, points
<1>6. CASE n < 2
  BY <1>2, <1>6
<1>7. CASE ~(n < 2)
  <2>1. 95 * (n - 1) \in Int /\ 5 * (n - 1) \in Int /\ points # {}
    BY <1>3, <1>5, <1>7
  <2>2. P(95) \in Int /\ P(5) \in Int
    BY <1>4, <2>1, InterpIs
  <2> HIDE DEF P
  <2> QED
    BY <1>2, <1>7, <2>2
<1> QED
  BY <1>6, <1>7

\* So is how much of it is heard again.
LEMMA RecurrenceIs ==
  ASSUME NEW curve \in Seq(Int), NEW s, NEW starts, NEW win,
         \A t \in starts \cup {s} : Sung(curve, t, win) \subseteq 1..Len(curve)
  PROVE  Recurrence(curve, s, starts, win) \in Int
<1> DEFINE apart == {u \in starts : Abs(s - u) >= win}
           like(t) == Likeness(curve, Sung(curve, s, win), Sung(curve, t, win))
           V == {0} \cup {like(t) : t \in apart}
<1>1. Recurrence(curve, s, starts, win) = Max(V)
  BY DEF Recurrence
<1>2. ASSUME NEW a \in SUBSET (1..Len(curve)), NEW b PROVE Likeness(curve, a, b) \in 0..12
  <2> DEFINE N == {curve[i] % 12 : i \in a} \cap {curve[i] % 12 : i \in b}
  <2>1. Likeness(curve, a, b) = Cardinality(N)
    BY DEF Likeness
  <2>2. \A i \in 1..Len(curve) : curve[i] \in Int
    OBVIOUS
  <2>3. ASSUME NEW i \in a PROVE curve[i] % 12 \in 0..11
    <3>1. curve[i] \in Int
      BY <2>2
    <3>2. \A x \in Int : x % 12 \in 0..11
      OBVIOUS
    <3> QED
      BY <3>1, <3>2
  <2>4. N \in SUBSET (0..11)
    BY <2>3
  <2> HIDE DEF N
  <2> DEFINE m == 11
  <2>5. m \in Nat /\ m + 1 = 12
    OBVIOUS
  <2>6. N \in SUBSET (0..m)
    BY <2>4
  <2> HIDE DEF m
  <2>7. Cardinality(N) \in Nat /\ Cardinality(N) <= m + 1
    BY <2>5, <2>6, FramesCounted
  <2> DEFINE c == Cardinality(N)
  <2>8. c \in Nat /\ c <= m + 1
    BY <2>7
  <2>9. Likeness(curve, a, b) = c
    BY <2>1
  <2> HIDE DEF c
  <2>10. c \in 0..12
    BY <2>5, <2>8
  <2> QED
    BY <2>9, <2>10
<1>3. \A t \in apart : like(t) \in 0..12
  <2>1. Sung(curve, s, win) \in SUBSET (1..Len(curve))
    OBVIOUS
  <2> QED
    BY <1>2, <2>1
<1> HIDE DEF apart, like
<1>4. V \in SUBSET Int /\ V # {} /\ \A x \in V : x <= 12
  BY <1>3
<1> HIDE DEF V
<1>5. Max(V) \in V
  <2> DEFINE b == 12
  <2>1. b \in Int /\ \A x \in V : x <= b
    BY <1>4
  <2> HIDE DEF b
  <2> QED
    BY <1>4, <2>1, MaxBelow
<1> QED
  BY <1>1, <1>4, <1>5

\* Where something lies between the least and the most is a number.
LEMMA ShareIs ==
  ASSUME NEW n \in Nat, NEW S \in SUBSET (0..n), S # {}, NEW f, \A i \in S : f[i] \in Int, NEW s \in S
  PROVE  MinMax(f[s], {f[i] : i \in S}) \in Int
<1> DEFINE all == {f[i] : i \in S}
           top == Max(all)
           low == Min(all)
<1>1. top \in Int /\ low \in Int /\ low <= f[s] /\ f[s] <= top
  BY Extremes
<1>2. MinMax(f[s], all) = IF top = low THEN 0 ELSE (100 * (f[s] - low)) \div (top - low)
  BY DEF MinMax
<1>3. f[s] \in Int
  OBVIOUS
<1> HIDE DEF top, low, all
<1>4. CASE top = low
  BY <1>2, <1>4 DEF all
<1>5. CASE top # low
  <2> DEFINE u == 100 * (f[s] - low)  v == top - low
  <2>1. u \in Int /\ v \in Nat \ {0}
    BY <1>1, <1>3, <1>5
  <2>2. MinMax(f[s], all) = u \div v
    BY <1>2, <1>5
  <2> HIDE DEF u, v
  <2> QED
    BY <2>1, <2>2 DEF all
<1> QED
  BY <1>4, <1>5

\* The excerpt of a song that has a frame is a window of it, whole.
LEMMA Excerpt ==
  ASSUME NEW curve \in Seq(Int), Len(curve) > 0, NEW window \in Nat \ {0}, NEW stride
  PROVE  LET p == PickPreview(curve, window, stride) IN
         0 <= p[1] /\ p[2] <= Len(curve) /\ p[2] - p[1] = Min({Len(curve), window})
<1> DEFINE n == Len(curve)
           win == Min({n, window})
           starts == WindowStarts(n, win, stride)
           m1(s) == Cardinality(Sung(curve, s, win))
           m2(s) == Stability(curve, Sung(curve, s, win))
           m3(s) == Width(curve, Sung(curve, s, win))
           m4(s) == Recurrence(curve, s, starts, win)
           p1(s) == MinMax(m1(s), {m1(t) : t \in starts})
           p2(s) == MinMax(m2(s), {m2(t) : t \in starts})
           p3(s) == MinMax(m3(s), {m3(t) : t \in starts})
           p4(s) == MinMax(m4(s), {m4(t) : t \in starts})
           F == [s \in starts |-> 40 * p1(s) + 20 * p2(s) + 15 * p3(s) + 25 * p4(s)]
           best == Best(starts, F)
<1>1. PickPreview(curve, window, stride) = <<best, best + win>>
  BY DEF PickPreview
<1>2. n \in Nat /\ win \in Nat /\ win <= n
  <2>1. n \in Nat /\ n > 0
    OBVIOUS
  <2> HIDE DEF n
  <2> QED
    BY <2>1, MinTwo
<1>3. starts \in SUBSET (0..(n - win)) /\ starts # {} /\ n - win \in Nat
  <2> HIDE DEF n, win
  <2> QED
    BY <1>2, WindowsFit
<1> HIDE DEF starts, F, p1, p2, p3, p4
<1>4. ASSUME NEW s \in starts PROVE Sung(curve, s, win) \in SUBSET (1..n)
  <2>1. s \in 0..(n - win)
    BY <1>3
  <2> HIDE DEF n, win
  <2>2. ASSUME NEW i \in (s + 1)..(s + win) PROVE i \in 1..n
    BY <1>2, <2>1
  <2> QED
    BY <2>2 DEF Sung
<1>5. \A s \in starts : m1(s) \in Int /\ m2(s) \in Int /\ m3(s) \in Int /\ m4(s) \in Int
  <2>1. ASSUME NEW s \in starts PROVE m1(s) \in Int
    <3> DEFINE S == Sung(curve, s, win)
    <3>1. S \in SUBSET (1..n)
      BY <1>4
    <3> HIDE DEF S, n
    <3>2. S \in SUBSET (0..n)
      BY <3>1
    <3>3. Cardinality(S) \in Nat
      BY <1>2, <3>2, FramesCounted
    <3> QED
      BY <3>3 DEF S
  <2>2. ASSUME NEW s \in starts PROVE m2(s) \in Int
    BY <1>4, StabilityIs
  <2>3. ASSUME NEW s \in starts PROVE m3(s) \in Int
    BY <1>4, WidthIs
  <2>4. ASSUME NEW s \in starts PROVE m4(s) \in Int
    <3>1. \A t \in starts \cup {s} : Sung(curve, t, win) \subseteq 1..Len(curve)
      BY <1>4
    <3> HIDE DEF win
    <3> QED
      BY <3>1, RecurrenceIs
  <2> QED
    BY <2>1, <2>2, <2>3, <2>4
<1> HIDE DEF m1, m2, m3, m4
<1>6. ASSUME NEW f, \A t \in starts : f[t] \in Int, NEW s \in starts
      PROVE  MinMax(f[s], {f[t] : t \in starts}) \in Int
  <2> HIDE DEF n, win
  <2> QED
    BY <1>3, <1>6, ShareIs
<1>7. \A s \in starts : p1(s) \in Int /\ p2(s) \in Int /\ p3(s) \in Int /\ p4(s) \in Int
  <2> TAKE s \in starts
  <2>1. p1(s) \in Int
    <3> DEFINE f == [t \in starts |-> m1(t)]
    <3>1. f[s] = m1(s) /\ {f[t] : t \in starts} = {m1(t) : t \in starts} /\ \A t \in starts : f[t] \in Int
      BY <1>5
    <3> HIDE DEF f
    <3> QED
      BY <1>6, <3>1 DEF p1
  <2>2. p2(s) \in Int
    <3> DEFINE f == [t \in starts |-> m2(t)]
    <3>1. f[s] = m2(s) /\ {f[t] : t \in starts} = {m2(t) : t \in starts} /\ \A t \in starts : f[t] \in Int
      BY <1>5
    <3> HIDE DEF f
    <3> QED
      BY <1>6, <3>1 DEF p2
  <2>3. p3(s) \in Int
    <3> DEFINE f == [t \in starts |-> m3(t)]
    <3>1. f[s] = m3(s) /\ {f[t] : t \in starts} = {m3(t) : t \in starts} /\ \A t \in starts : f[t] \in Int
      BY <1>5
    <3> HIDE DEF f
    <3> QED
      BY <1>6, <3>1 DEF p3
  <2>4. p4(s) \in Int
    <3> DEFINE f == [t \in starts |-> m4(t)]
    <3>1. f[s] = m4(s) /\ {f[t] : t \in starts} = {m4(t) : t \in starts} /\ \A t \in starts : f[t] \in Int
      BY <1>5
    <3> HIDE DEF f
    <3> QED
      BY <1>6, <3>1 DEF p4
  <2> QED
    BY <2>1, <2>2, <2>3, <2>4
<1>8. \A s \in starts : F[s] \in Int
  BY <1>7 DEF F
<1>9. best \in starts
  <2> HIDE DEF n, win
  <2>1. Foremost(starts, F, best)
    BY <1>3, <1>8, BestIs
  <2> QED
    BY <2>1 DEF Foremost
<1> HIDE DEF best
<1>10. best \in 0..(n - win)
  BY <1>3, <1>9
<1> QED
  BY <1>1, <1>2, <1>10

\* What was reported is what an analysis says of a song.
ReportKept ==
  report # <<>> =>
    \E s \in Samples :
      report = [sample |-> s, said |-> AnalyzeVocal(s.curve, s.rms, s.correlation, Report),
                track |-> F0Track(s.curve, Report.points)]

\* Every step keeps it.
LEMMA ReportStep == Lone /\ Sound /\ ReportKept /\ [Next]_vars => ReportKept'
<1>1. SUFFICES ASSUME Lone, Sound, ReportKept, [Next]_vars PROVE ReportKept'
  OBVIOUS
<1>2. CoverFields /\ SepFields /\ HeldAlone
  BY <1>1 DEF Lone, Sound
<1>3. UNCHANGED report => ReportKept'
  BY <1>1 DEF ReportKept
<1>4. CASE UNCHANGED vars
  BY <1>3, <1>4 DEF vars
<1>5. CASE Asking
  BY <1>3, <1>5, AskingStep
<1>6. CASE SeparateStarts \/ SeparateRuns \/ SeparateEnds \/ VerifyBackends
  BY <1>3, <1>6 DEF SeparateStarts, SeparateRuns, SeparateEnds, VerifyBackends
<1>7. CASE Working
  BY <1>2, <1>3, <1>7, WorkingStep
<1>8. ASSUME NEW s \in Samples, Analyze(s) PROVE ReportKept'
  BY <1>8 DEF Analyze, ReportKept
<1>9. Next \/ UNCHANGED vars
  BY <1>1
<1>10. CASE \E s \in Samples : Analyze(s)
  BY <1>8, <1>10
<1> QED
  BY <1>4, <1>5, <1>6, <1>7, <1>9, <1>10, Steps

\* ReportsTheSong: for any song and any way of looking at it, a stretch of singing
\* that is reported begins and ends with a voiced frame and is apart from the next by
\* more than a breath, and the excerpt is a whole window of the song (segments.py,
\* preview_picker.py).
THEOREM Reported == Spec => []ReportsTheSong
<1>1. ASSUME ReportKept PROVE ReportsTheSong
  <2>1. SUFFICES ASSUME report # <<>>
                 PROVE  LET s == report.sample  said == report.said  n == Len(s.curve) IN
                        /\ \A g \in said.segments : g[2] <= n /\ Voiced(s.curve[g[1] + 1]) /\ Voiced(s.curve[g[2]])
                        /\ \A g, h \in said.segments : g[1] < h[1] => h[1] - g[2] > Report.bridge
                        /\ n > 0 => /\ 0 <= said.preview[1] /\ said.preview[2] <= n
                                    /\ said.preview[2] - said.preview[1] = Min({n, Report.window})
    BY DEF ReportsTheSong
  <2>2. PICK s \in Samples :
          report = [sample |-> s, said |-> AnalyzeVocal(s.curve, s.rms, s.correlation, Report),
                    track |-> F0Track(s.curve, Report.points)]
    BY <1>1, <2>1 DEF ReportKept
  <2> DEFINE said == AnalyzeVocal(s.curve, s.rms, s.correlation, Report)
             energy == AlignTo(s.rms, Len(s.curve))
  <2>3. report.sample = s /\ report.said = said
    BY <2>2
  <2>4. /\ said.segments = FindVoicedSegments(s.curve, energy, Report.bridge, Report.shortest)
        /\ said.preview = PickPreview(s.curve, Report.window, Report.stride)
    BY DEF AnalyzeVocal
  <2>5. s.curve \in Seq(Int) /\ Len(s.curve) \in Nat
    BY MeasuresAssumption
  <2>6. Report.bridge \in Nat /\ Report.window \in Nat \ {0}
    BY ReportAssumption
  <2> HIDE DEF said, energy
  <2>7. /\ \A g \in said.segments : g[2] <= Len(s.curve) /\ Voiced(s.curve[g[1] + 1]) /\ Voiced(s.curve[g[2]])
        /\ \A g, h \in said.segments : g[1] < h[1] => h[1] - g[2] > Report.bridge
    BY <2>4, <2>5, <2>6, Segments
  <2>8. Len(s.curve) > 0 =>
          /\ 0 <= said.preview[1] /\ said.preview[2] <= Len(s.curve)
          /\ said.preview[2] - said.preview[1] = Min({Len(s.curve), Report.window})
    BY <2>4, <2>5, <2>6, Excerpt
  <2> QED
    BY <2>3, <2>7, <2>8
<1>2. Init => ReportKept
  BY DEF Init, ReportKept
<1> QED
  BY <1>1, <1>2, InitSound, SoundStep, ReportStep, InitLone, LoneStep, PTL DEF Spec

-----------------------------------------------------------------------------
(* What every variable holds: TypeOK *)

\* TypeOK: for any request, voice and machine every variable holds what its part
\* of the program can put there; the gain, the variant and what was retrieved of a
\* cover that is delivered are in bounds (compute, rvc/rms.py, tuning/optimizer.py,
\* rvc/infer.py); and the report is in its song.
THEOREM Typed == Spec => []TypeOK
<1>1. ASSUME Lone, Sound, MachineKept, ReportsTheSong PROVE TypeOK
  <2>1. present \in SUBSET ComputeBackend /\ "cpu" \in present
    BY <1>1, HardwareAssumption DEF MachineKept
  <2>2. At("delivered") => cover.result.gain \in -9..9 /\ cover.result.variant \in 1..Variants
                            /\ cover.result.retrieved.unsung <= cover.result.retrieved.sung
    <3>1. SUFFICES ASSUME cover.at = "delivered"
                   PROVE  cover.result.gain \in -9..9 /\ cover.result.variant \in 1..Variants
                            /\ cover.result.retrieved.unsung <= cover.result.retrieved.sung
      BY DEF At
    <3>2. cover.scores \in Seq(Int) /\ Bounded(cover.result, Len(cover.scores)) /\ Len(cover.scores) <= Variants
      BY <1>1, <3>1 DEF Sound, GradeKept, Rendering
    <3>3. Len(cover.scores) \in Nat /\ Variants \in {1, 4}
      BY <3>2, VariantsAre
    <3>4. cover.result.variant \in 1..Variants
      BY <3>2, <3>3 DEF Bounded
    <3> QED
      BY <3>2, <3>4 DEF Bounded
  <2> QED
    BY <1>1, <2>1, <2>2 DEF TypeOK, MachineKept, Lone, CallKept
<1> QED
  BY <1>1, InitSound, SoundStep, InitMachine, MachineStep, InitLone, LoneStep, Reported, PTL DEF Spec
=============================================================================
