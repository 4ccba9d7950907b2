----------------------------- MODULE Separation ------------------------------
(***************************************************************************)
(* A song is separated into stems: svc_engine/separation.  Each model of   *)
(* the quality level runs on the device its own evidence allows and is     *)
(* asked again for less when memory runs out; the results are combined and *)
(* the vocal goes through the cleanup passes that were asked for.          *)
(***************************************************************************)
EXTENDS Compute, Audio

CONSTANTS
  Registry,     \* the catalogue: records [id, kind, free, sdr, stems]
  Evidence,     \* what the data file of the support matrix may hold at first
  Hardware,     \* what may be present: sets of backends, the CPU among them
  FreeMemory,   \* gigabytes free on the accelerator, or Unknown
  Mix           \* the decoded song, a buffer

VARIABLES
  evidence,     \* the data file of the support matrix
  present,      \* the devices torch finds
  sep,          \* the separation under way
  call,         \* the backend's separate: "none", "loading" a model, or "working" with it
  loaded        \* the model the backend holds, or Nothing

sepVars == <<evidence, present, sep, call, loaded>>

Nothing == <<>>
matrix  == LoadMatrix(evidence)

\* A song that decodes has sound in one channel or two.
ASSUME MixAssumption == Mix \in [frames : Nat \ {0}, channels : {1, 2}, loud : BOOLEAN]
\* There always is a processor (devices.py).
ASSUME HardwareAssumption == \A p \in Hardware : p \subseteq ComputeBackend /\ "cpu" \in p
ASSUME MemoryAssumption == FreeMemory \subseteq Nat \cup {Unknown}

-----------------------------------------------------------------------------
(* quality.py, and what the catalogue offers *)

QualityLevel == {"fast", "balanced", "max"}
PROFILES ==
  [fast     |-> [models |-> <<"sep_melband_kim">>, segment_size |-> 256, overlap |-> 1, batch_size |-> 1],
   balanced |-> [models |-> <<"sep_melband_kim">>, segment_size |-> 256, overlap |-> 2, batch_size |-> 1],
   max      |-> [models |-> <<"sep_melband_kim", "sep_melband_kim_ft2">>,
                 segment_size |-> 256, overlap |-> 4, batch_size |-> 1]]

\* What the catalogue lacks, or the licence policy excludes, is left out.
Allowed(spec, private) == private \/ spec.free
ResolveModels(profile, private) ==
  SelectSeq(profile.models, LAMBDA id : \E s \in Registry : s.id = id /\ Allowed(s, private))
Spec_for(id) == CHOOSE s \in Registry : s.id = id

CleanupStep == {"denoise", "dereverb", "deecho", "karaoke"}
STEP_ORDER  == <<"denoise", "dereverb", "deecho", "karaoke">>
\* The best of the models that may be distributed, and of all when none may.
ModelFor(step) ==
  LET candidates == {s \in Registry : s.kind = step}
      free == {s \in candidates : s.free}
      pool == IF free = {} THEN candidates ELSE free
  IN  IF pool = {} THEN {} ELSE {CHOOSE s \in pool : \A t \in pool : s.sdr >= t.sdr}

-----------------------------------------------------------------------------
(* Routing *)

\* Mutant: any evidence for the component authorises every model.
DeviceForAnyModel(id) ==
  Select({b \in ComputeBackend : \E s \in Registry :
            b \in AllowedBackendsForImplementation(matrix["separation"], s.id)}, present)

\* The exact model's own evidence, unless the matrix has none of that kind.
DeviceForModel(id) ==
  IF matrix["separation"].implementation_proofs # {}
    THEN DeviceForImplementation(matrix, "separation", id, present)
    ELSE DeviceFor(matrix, "separation", present)

\* The device a backend really uses: the library takes CUDA wherever it finds
\* it, and only the Intel card has to be pointed at.
Placed(backend) == IF backend = "cpu" /\ "cuda" \in present THEN "cuda" ELSE backend

-----------------------------------------------------------------------------
(* AudioSeparatorBackend.separate: what comes back of what the library wrote *)

\* A stem that was asked for and did not come is the mix less its complement.
DeriveMissing(parts, mix, wanted, loud) ==
  LET pair == [vocals |-> "instrumental", instrumental |-> "vocals"]
      missing == {k \in DOMAIN pair \cap wanted : k \notin DOMAIN parts /\ pair[k] \in DOMAIN parts}
  IN  [k \in DOMAIN parts \cup missing |->
         FitLength(IF k \in DOMAIN parts THEN parts[k] ELSE Binary(mix, parts[pair[k]], loud), mix.frames)]

\* written: which of the two outputs are there; the catalogue names them.  Only
\* the stem that is kept is told apart by whether anything is heard in it.
Separate(spec, input, wanted, written, n, loud) ==
  LET kinds == {spec.stems[i] : i \in written}
  IN  DeriveMissing([k \in kinds |-> Buffer(n, 2, (k = spec.stems[1]) => loud)], input, wanted, loud)

Produces(spec, input, wanted) ==
  {Separate(spec, input, wanted, written, n, loud) :
     written \in SUBSET {1, 2} \ {{}}, n \in {Mix.frames - 1, Mix.frames + 1}, loud \in BOOLEAN}

\* combine_stems: stem by stem; one that a single model returned passes through.
CombineStems(results) ==
  LET Of(k) == {r[k] : r \in {x \in results : k \in DOMAIN x}}
      kinds == UNION {DOMAIN r : r \in results}
  IN  [k \in kinds |-> Buffer(Shortest(Of(k)), Widest(Of(k)), \E b \in Of(k) : b.loud)]

-----------------------------------------------------------------------------
(* SeparationPipeline.run *)

NoRun == [at |-> "idle", private |-> FALSE, profile |-> PROFILES["fast"], todo |-> <<>>, rungs |-> <<>>,
          used |-> FALSE, results |-> {}, parts |-> <<>>, steps |-> {}, why |-> ""]

SepInit ==
  /\ evidence \in Evidence /\ present \in Hardware
  /\ sep = NoRun /\ call = "none" /\ loaded = Nothing

Fails(why) == sep' = [NoRun EXCEPT !.at = "failed", !.why = why]

\* The plan of a model, and the retries that would follow it.
PlanFor(id, free, profile) ==
  LET b == DeviceForModel(id)
  IN  OomLadder([segment_size |-> SuggestedSegmentSize(b, free, profile.segment_size),
                 batch_size |-> profile.batch_size, overlap |-> profile.overlap, backend |-> b], TRUE)

Start(level, private, steps) ==
  LET models == ResolveModels(PROFILES[level], private) IN
  /\ sep.at = "idle"
  /\ IF models = <<>> THEN Fails("MODEL_MISSING")
     ELSE sep' = [NoRun EXCEPT !.at = "model", !.private = private, !.profile = PROFILES[level],
                               !.todo = models, !.steps = steps]
  /\ UNCHANGED <<evidence, present, call, loaded>>
\* The song does not decode, or the models would not fit on the disk.
StartFails ==
  /\ sep.at = "idle" /\ \E why \in {Unsupported, "DISK_FULL"} : Fails(why)
  /\ UNCHANGED <<evidence, present, call, loaded>>

\* used: this model was tried before, and ran out of memory.
Route(free) ==
  /\ sep.at = "model"
  /\ sep' = [sep EXCEPT !.at = "attempt", !.rungs = PlanFor(Head(sep.todo), free, sep.profile), !.used = FALSE]
  /\ UNCHANGED <<evidence, present, call, loaded>>

Model   == Spec_for(Head(sep.todo))
Attempt == Head(sep.rungs)

AttemptSucceeds ==
  /\ sep.at = "attempt" /\ call = "working"
  /\ \E parts \in Produces(Model, Mix, {"vocals", "instrumental"}) :
       sep' = [sep EXCEPT !.at = IF Len(sep.todo) = 1 THEN "combine" ELSE "model",
                          !.todo = Tail(@), !.rungs = <<>>, !.results = @ \cup {parts}]
  /\ call' = "none"
  /\ UNCHANGED <<evidence, present, loaded>>

RunsOut ==
  /\ sep.at = "attempt"
  /\ IF Len(sep.rungs) = 1 THEN Fails("GPU_OOM") ELSE sep' = [sep EXCEPT !.rungs = Tail(@), !.used = TRUE]
  /\ call' = "none" /\ UNCHANGED <<evidence, present>>
\* Mutant: what is loaded stays there for the attempt that asks for less.
AttemptRunsOutHeld == RunsOut /\ UNCHANGED loaded
\* Out of memory, before the model is loaded, while it is or with it: the card is
\* freed and the next rung is tried, if there is one.
AttemptRunsOut == RunsOut /\ loaded' = Nothing
\* Anything else is raised at once.
AttemptFails ==
  /\ sep.at = "attempt" /\ Fails("error") /\ call' = "none" /\ loaded' = Nothing
  /\ UNCHANGED <<evidence, present>>

\* Every stem is as long as the song, and a silent vocal is an error.
Combine ==
  LET combined == IF Cardinality(sep.results) > 1 THEN CombineStems(sep.results)
                  ELSE CHOOSE r \in sep.results : TRUE
      parts == [k \in DOMAIN combined |-> FitLength(combined[k], Mix.frames)] IN
  /\ sep.at = "combine"
  /\ IF "vocals" \in DOMAIN parts /\ ~parts["vocals"].loud THEN Fails("NO_VOCALS")
     ELSE sep' = [sep EXCEPT !.at = "cleanup", !.results = {}, !.parts = parts,
                             !.steps = IF "vocals" \in DOMAIN parts THEN @ ELSE {}]
  /\ loaded' = Nothing
  /\ UNCHANGED <<evidence, present, call>>

-----------------------------------------------------------------------------
(* VocalCleanup.run, always on the CPU *)

Step == Head(SelectSeq(STEP_ORDER, LAMBDA s : s \in sep.steps))
CleanupModel == {s \in ModelFor(Step) : Allowed(s, sep.private)}
Runnable == sep.at = "cleanup" /\ sep.steps # {} /\ CleanupModel # {}
StepOver(parts) == sep' = [sep EXCEPT !.steps = @ \ {Step}, !.parts = parts]
With(f, g)      == [k \in DOMAIN f \cup DOMAIN g |-> IF k \in DOMAIN g THEN g[k] ELSE f[k]]
FirstOf(parts, kinds) ==        \* the first of the kinds that came back, if any did
  LET i == SelectInSeq(kinds, LAMBDA k : k \in DOMAIN parts) IN IF i = 0 THEN {} ELSE {kinds[i]}

\* A model that returned next to nothing has misfired.
Kept(before, kept) == kept.loud

\* What the pass kept replaces the vocal; what it removed is kept beside it, or
\* derived from what went in.
Apply(parts, produced, main, removed, extra) ==
  LET before == parts["vocals"]  kept == FirstOf(produced, main)  rest == FirstOf(produced, removed) IN
  IF kept = {} THEN parts
  ELSE LET k == FitLength(produced[CHOOSE x \in kept : TRUE], before.frames) IN
       IF ~Kept(before, k) THEN parts
       ELSE With(parts, With([x \in {extra} |-> IF rest = {} THEN Binary(before, k, TRUE)
                                ELSE FitLength(produced[CHOOSE y \in rest : TRUE], before.frames)],
                             IF extra = "backing" THEN [lead |-> k, vocals |-> k] ELSE [vocals |-> k]))
ApplyRemoval(parts, produced) == Apply(parts, produced, <<"vocals">>, <<"ambience", "other">>, "ambience")
ApplyKaraoke(parts, produced) ==
  Apply(parts, produced, <<"lead", "vocals">>, <<"backing", "instrumental">>, "backing")

CleanupSkips ==
  /\ sep.at = "cleanup" /\ sep.steps # {} /\ CleanupModel = {} /\ call = "none" /\ StepOver(sep.parts)
  /\ UNCHANGED <<evidence, present, call, loaded>>
CleanupRuns ==
  /\ Runnable /\ call = "working"
  /\ \E m \in CleanupModel :
       \E produced \in Produces(m, sep.parts["vocals"], {"vocals", "ambience", "lead", "backing"}) :
         StepOver(IF Step = "karaoke" THEN ApplyKaraoke(sep.parts, produced)
                  ELSE ApplyRemoval(sep.parts, produced))
  /\ call' = "none"
  /\ UNCHANGED <<evidence, present, loaded>>
\* An error the engine has a code for skips the pass, any other is raised: what
\* the backend holds by then stays, the pass's own model or the one before it.
CleanupFails ==
  /\ Runnable /\ StepOver(sep.parts) /\ call' = "none"
  /\ UNCHANGED <<evidence, present, loaded>>
CleanupRaises ==
  /\ Runnable /\ Fails("raised") /\ call' = "none"
  /\ UNCHANGED <<evidence, present, loaded>>
CleanupEnds ==
  /\ sep.at = "cleanup" /\ sep.steps = {}
  /\ sep' = [NoRun EXCEPT !.at = "separated", !.parts = sep.parts]
  /\ loaded' = Nothing
  /\ UNCHANGED <<evidence, present, call>>

-----------------------------------------------------------------------------
(* A call of the backend, and the caller's progress hook *)

\* The model that is asked for, and where it will be.
Wanted ==
  IF sep.at = "attempt" THEN {[model |-> Head(sep.todo), backend |-> Placed(Attempt.backend)]}
  ELSE {[model |-> m.id, backend |-> Placed("cpu")] : m \in CleanupModel}
\* Every call makes a separator of its own and loads the model into that; the one
\* the backend holds is let go when the new one takes its place, not before.
Loads ==
  /\ sep.at = "attempt" \/ Runnable
  /\ call = "none" /\ call' = "loading"
  /\ UNCHANGED <<evidence, present, sep, loaded>>
HandsOver ==
  /\ call = "loading" /\ call' = "working"
  /\ \E m \in Wanted : loaded' = m
  /\ UNCHANGED <<evidence, present, sep>>
\* The separation models in memory: the backend's, and one that is being loaded.
Separators == ({loaded} \ {Nothing}) \cup (IF call = "loading" THEN Wanted ELSE {})

\* The hook raises when the job was cancelled: before a model, a combination or a
\* cleanup pass.  What is loaded stays.
Interrupted ==
  /\ call = "none"
  /\ \/ sep.at = "model" \/ Runnable
     \/ sep.at = "combine" /\ Cardinality(sep.results) > 1
  /\ Fails("cancelled")
  /\ UNCHANGED <<evidence, present, call, loaded>>

-----------------------------------------------------------------------------
(* svc verify-backends --write: the evidence of this machine replaces the file,
   and a write that is cut short leaves what does not parse. *)
Verify(ok, fcpe) ==
  /\ sep.at = "idle"
  /\ evidence' = BuildSupportPayload(VerifyAll(ok, fcpe, present))
  /\ UNCHANGED <<present, sep, call, loaded>>
VerifyTorn ==
  /\ sep.at = "idle" /\ evidence' = Unreadable
  /\ UNCHANGED <<present, sep, call, loaded>>

Separating ==
  \/ \E free \in FreeMemory : Route(free)
  \/ Loads \/ HandsOver \/ Interrupted
  \/ AttemptSucceeds \/ AttemptRunsOut \/ AttemptFails \/ Combine
  \/ CleanupSkips \/ CleanupRuns \/ CleanupFails \/ CleanupRaises \/ CleanupEnds
==============================================================================
