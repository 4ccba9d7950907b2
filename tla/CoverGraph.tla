------------------------------ MODULE CoverGraph ------------------------------
(***************************************************************************)
(* The work inside a cover: svc_engine/workflows/cover.py and the commands *)
(* of cli.py that do all of it or a part, over Separation and Conversion.  *)
(* A request is separated, analysed, rendered and delivered; a step reads  *)
(* what the steps before it kept, and loads models of its own.             *)
(***************************************************************************)
EXTENDS Separation, Conversion

CONSTANTS
  Requests,     \* the covers asked for: [command, level, preview, private, cleanup, advanced, suffix]
  Arguments,    \* of a command: [command, quality, private, cleanup, method, playback, ambience, suffix]
  Voices,       \* [profile, consent, model, index, faiss], the profile or Refused
  RawCurves,    \* the pitch tracks a model may find in the vocal
  Samples,      \* what `svc analyze` is given: [curve, rms, correlation]
  Report,       \* how it looks at them: [bridge, shortest, window, stride, points]
  ChunkPlans,   \* <<length, overlap>> of the windows of a conversion
  Outcomes,     \* the <<component, device>> whose check may succeed: sets of them
  Scores,       \* what an automatic comparison may say of a variant
  Loudness      \* how much louder than the singing a conversion may be, in decibels

\* The windows of a conversion are not empty (chunking.py).
ASSUME ChunksAssumption == ChunkPlans \subseteq (Nat \ {0}) \X Nat
\* A quality is one of three and every cleanup pass is known; the knobs are
\* numbers, which a request checks (rpc/server.py, cli.py, tuning/config.py).
Knobs ==
  [index_rate : Int, protect : Int, rms_mix_rate : Int, f0_method : STRING, playback_strategy : STRING,
   ambience_strategy : STRING, auto_tune : BOOLEAN]
ASSUME RequestsAssumption ==
  Requests \subseteq [command : {"cover"}, level : QualityLevel, preview : BOOLEAN, private : BOOLEAN,
                      cleanup : SUBSET CleanupStep, advanced : Knobs, suffix : STRING]
ASSUME ArgumentsAssumption ==
  Arguments \subseteq [command : {"convert", "separate", "profile", "pitch"}, quality : QualityLevel,
                       private : BOOLEAN, cleanup : SUBSET CleanupStep, method : STRING,
                       playback : STRING, ambience : STRING, suffix : STRING]
\* A profile that could be read is numbers, and so is what is measured
\* (profiles/profile.py, analysis/f0.py, tuning/optimizer.py).
VoiceProfiles ==
  [comfort_low : Int, comfort_high : Int, median : Int, abs_low : Int, abs_high : Int,
   quality_vs_shift : SUBSET (Int \X Int)]
ASSUME VoicesAssumption == \A v \in Voices : v.profile = Refused \/ v.profile \in VoiceProfiles
ASSUME MeasuresAssumption ==
  /\ RawCurves \subseteq Seq(Int) /\ Scores \subseteq Int /\ Loudness \subseteq Int
  /\ Samples \subseteq [curve : Seq(Int), rms : Seq(Nat), correlation : Seq(Int)]
\* A window, a stride and a stretch are a frame at least (preview_picker.py,
\* segments.py).
ASSUME ReportAssumption ==
  Report \in [bridge : Nat, shortest : Nat \ {0}, window : Nat \ {0}, stride : Nat \ {0}, points : Nat \ {0}]

VARIABLES
  voice,        \* the voice in the library
  cover,        \* the cover under way
  held,         \* the models it holds: [component, implementation, backend]
  report        \* what `svc analyze` said last

vars == <<sepVars, voice, cover, held, report>>

NoCover == [at |-> "idle", request |-> <<>>, method |-> "", device |-> "cpu", stems |-> <<>>,
            curve |-> <<>>, decision |-> <<>>, out |-> <<>>, fed |-> <<>>, error |-> {},
            scores |-> <<>>, result |-> <<>>, why |-> ""]

Init ==
  /\ SepInit /\ voice \in Voices
  /\ cover = NoCover /\ held = {} /\ report = <<>>

CoverFails(why) == cover' = [NoCover EXCEPT !.at = "failed", !.why = why]
At(step)        == cover.at = step
Holding(c)      == \E h \in held : h.component = c

-----------------------------------------------------------------------------
(* What is asked for *)

\* The pitch model and the device everything of the render is then given.
CliRoute(method) ==
  IF method = "rmvpe" THEN [method |-> "rmvpe", device |-> "cpu"]
  ELSE [method |-> "fcpe", device |-> DeviceForImplementation(matrix, "f0", "torchfcpe", present)]
AnalysisRoute(r) ==
  LET m == r.advanced.f0_method IN CliRoute(IF m = "auto" /\ ~r.preview THEN "rmvpe" ELSE m)

Variants == IF cover.request.preview /\ cover.request.advanced.auto_tune THEN 4 ELSE 1
Config   == IF Variants = 1 THEN cover.request.advanced
            ELSE CandidateGrid(cover.request.advanced)[Len(cover.scores) + 1]

Begin(r) == cover' = [NoCover EXCEPT !.at = "separate", !.request = r,
                        !.method = AnalysisRoute(r).method, !.device = AnalysisRoute(r).device]
Request(r) ==
  /\ At("idle") /\ report = <<>>
  /\ IF ~voice.consent THEN CoverFails("CONSENT_REQUIRED")
     ELSE IF voice.profile = Refused THEN CoverFails("VOICE_CORRUPT")
     ELSE IF ~ValidConfig(r.advanced) THEN CoverFails("INTERNAL") ELSE Begin(r)
  /\ UNCHANGED <<sepVars, voice, held, report>>

\* svc convert: the knobs are those its voice recommends, or the usual ones.
\* The method is one of two: neither it nor anything else is left to choose.
ConvertCommand(a) ==
  /\ a.command = "convert"
  /\ Request([command |-> "convert", level |-> a.quality, preview |-> FALSE, private |-> a.private,
              cleanup |-> {"dereverb"}, suffix |-> a.suffix,
              advanced |-> [index_rate |-> 70, protect |-> 33, rms_mix_rate |-> 25, f0_method |-> a.method,
                            playback_strategy |-> a.playback, ambience_strategy |-> a.ambience, auto_tune |-> FALSE]])
\* svc separate: any cleanup, models that may not be distributed too.
SeparateCommand(a) ==
  /\ At("idle") /\ report = <<>> /\ a.command = "separate"
  /\ cover' = [NoCover EXCEPT !.at = "separate",
       !.request = [command |-> "separate", level |-> a.quality, private |-> TRUE, cleanup |-> a.cleanup]]
  /\ UNCHANGED <<sepVars, voice, held, report>>
\* svc profile and svc pitch take a vocal that is separated already, or a song.
Listen(a) ==
  /\ At("idle") /\ report = <<>>
  /\ cover' = [NoCover EXCEPT !.at = "analyze", !.request = [command |-> a.command], !.stems = [vocals |-> Mix],
                 !.method = CliRoute(a.method).method, !.device = CliRoute(a.method).device]
  /\ UNCHANGED <<sepVars, voice, held, report>>
ProfileCommand(a) == a.command = "profile" /\ Listen(a)
PitchCommand(a)   == a.command = "pitch" /\ voice.profile # Refused /\ Listen(a)
Command(a) == ConvertCommand(a) \/ SeparateCommand(a) \/ ProfileCommand(a) \/ PitchCommand(a)
Asked(command) == cover.request # <<>> /\ cover.request.command = command

SeparateStarts ==
  /\ At("separate")
  /\ \/ Start(cover.request.level, cover.request.private, cover.request.cleanup) \/ StartFails
  /\ UNCHANGED <<voice, cover, held, report>>
SeparateRuns ==
  /\ At("separate") /\ Separating
  /\ UNCHANGED <<voice, cover, held, report>>
\* The stems are kept as files, all that svc separate is asked for; without both
\* that a cover needs there is none.
SeparateEnds ==
  /\ At("separate") /\ sep.at \in {"separated", "failed"}
  /\ IF sep.at = "failed" THEN CoverFails(sep.why)
     ELSE IF Asked("separate") THEN cover' = [cover EXCEPT !.at = "written", !.stems = sep.parts]
     ELSE IF ~({"vocals", "instrumental"} \subseteq DOMAIN sep.parts) THEN CoverFails("NO_VOCALS")
     ELSE cover' = [cover EXCEPT !.at = "analyze", !.stems = sep.parts]
  /\ sep' = [NoRun EXCEPT !.at = "over"]
  /\ UNCHANGED <<evidence, present, call, loaded, voice, held, report>>

-----------------------------------------------------------------------------
(* Analyze *)

\* Only the fast model leaves the processor, and it goes where it was sent.
F0Model == [component |-> "f0", implementation |-> IF cover.method = "fcpe" THEN "torchfcpe" ELSE "rmvpe",
            backend |-> IF cover.method = "fcpe" THEN cover.device ELSE "cpu"]

ExtractorLoads ==
  /\ cover.at \in {"analyze", "measure"} /\ held = {}
  /\ held' = {F0Model}
  /\ UNCHANGED <<sepVars, voice, cover, report>>
\* Its weights are not there, or it stops half-way; it is unloaded either way.
ExtractorFails ==
  /\ cover.at \in {"analyze", "measure"}
  /\ CoverFails("f0") /\ held' = {}
  /\ UNCHANGED <<sepVars, voice, report>>
Extract(raw) ==
  /\ At("analyze") /\ Holding("f0") /\ ~Asked("profile")
  /\ cover' = [cover EXCEPT !.at = "decide", !.curve = ResampleF0(raw, Mix.frames)]
  /\ held' = {}
  /\ UNCHANGED <<sepVars, voice, report>>

Energy == [i \in Frames(cover.curve) |-> IF cover.stems["vocals"].loud THEN 1 ELSE 0]
\* The range of a voice, from a sample in which it sings.
Profile(raw) ==
  LET profile == ComputeProfile(raw, [i \in Frames(raw) |-> 1]) IN
  /\ At("analyze") /\ Holding("f0") /\ Asked("profile")
  /\ IF profile = Refused THEN CoverFails("no pitch")
     ELSE cover' = [cover EXCEPT !.at = "profiled", !.curve = raw, !.result = [profile |-> profile]]
  /\ held' = {}
  /\ UNCHANGED <<sepVars, voice, report>>

-----------------------------------------------------------------------------
(* Render: ConversionPipeline._render_cover_detailed, once for every variant *)

Decide ==
  LET dist == FromF0(cover.curve, Energy) IN
  /\ At("decide") /\ ~Asked("pitch")
  /\ IF dist = Refused THEN CoverFails("no pitch")
     ELSE cover' = [cover EXCEPT !.at = "convert", !.decision = DecideShift(dist, voice.profile)]
  /\ UNCHANGED <<sepVars, voice, held, report>>

\* svc pitch decides and says so.
Advise ==
  LET dist == FromF0(cover.curve, Energy)  decision == DecideShift(dist, voice.profile) IN
  /\ At("decide") /\ Asked("pitch")
  /\ IF dist = Refused THEN CoverFails("no pitch")
     ELSE cover' = [cover EXCEPT !.at = "advised", !.decision = decision,
            !.result = [remainder |-> decision.best.remainder,
                        told |-> ExplainDecision(decision, voice.profile.quality_vs_shift # {})]]
  /\ UNCHANGED <<sepVars, voice, held, report>>

VoiceLoads ==
  /\ At("convert") /\ held = {} /\ LoadRvcModel(voice.model) # Refused
  /\ held' = {[component |-> "conversion", implementation |-> "rvc", backend |-> cover.device]}
  /\ UNCHANGED <<sepVars, voice, cover, report>>
\* A corrupt checkpoint, a HuBERT that cannot be had, or a card that is full: no
\* part of the voice stays.  Nothing is asked again for less here.
VoiceFails ==
  /\ At("convert") /\ CoverFails("conversion") /\ held' = {}
  /\ UNCHANGED <<sepVars, voice, report>>
Convert(plan, drift) ==
  LET windows == PlanChunks(Mix.frames, plan[1], plan[2]).windows IN
  /\ At("convert") /\ Holding("conversion")
  /\ cover' = [cover EXCEPT !.at = "measure",
       !.out = ConvertInChunks(Mix.frames, plan[1], plan[2], [k \in Frames(windows) |-> IF k = 1 THEN drift ELSE 0 - drift]),
       !.fed = ConvertSegment(LoadRvcModel(voice.model), cover.curve, PlanChunks(Mix.frames, plan[1], plan[2]),
                              cover.decision.best.semitones)]
  /\ held' = {}
  /\ UNCHANGED <<sepVars, voice, report>>

\* The pitch of what came out, a little off what was asked for.
Measure(off) ==
  /\ At("measure") /\ Holding("f0")
  /\ cover' = [cover EXCEPT !.at = "mix",
       !.error = CheckMelody(cover.curve, ApplyUpKey(cover.curve, cover.decision.best.semitones + off),
                             cover.decision.best.semitones)]
  /\ held' = {}
  /\ UNCHANGED <<sepVars, voice, report>>

SPLITTABLE == {"bass", "drums", "other"}
Split  == cover.request.advanced.playback_strategy = "B"
Stems  == Split /\ DOMAIN cover.stems \cap SPLITTABLE # {}
Playback == IF Stems THEN cover.stems ELSE cover.stems["instrumental"]
Layer  == IF "ambience" \in DOMAIN cover.stems THEN {cover.stems["ambience"]} ELSE {}

\* The music is moved, the vocal repaired, levelled and put into its room, and
\* both are mixed.  The delivered variant is the best one so far.
Mixed(returned, score, louder) ==
  LET best  == cover.decision.best
      moved == ShiftPlayback(Playback, Split, Stems, best.remainder, returned)
      vocal == RepairArtifacts([ToMono(cover.stems["vocals"]) EXCEPT !.frames = Len(cover.out)])
      room  == ApplyAmbience(vocal, Layer, Config.ambience_strategy)
      scores == Append(cover.scores, score) IN
  /\ At("mix")
  /\ IF moved = Refused THEN CoverFails("TypeError")
     ELSE cover' = [cover EXCEPT !.at = IF Len(scores) < Variants THEN "decide" ELSE "deliver",
                      !.scores = scores, !.out = <<>>, !.fed = <<>>, !.error = {},
                      !.result = IF Winner(scores) = Len(scores)
                        THEN With([semitones |-> best.semitones, remainder |-> best.remainder,
                                   told |-> ExplainDecision(cover.decision, voice.profile.quality_vs_shift # {}),
                                   correction |-> CorrectGlobalPitch(cover.error), variant |-> Len(scores),
                                   layer |-> OriginalLayerGain(Layer, Config.ambience_strategy),
                                   retrieved |-> Retrieved(LoadIndex(voice.index, voice.faiss), Config),
                                   gain |-> MatchEnvelope(0, louder, Config.rms_mix_rate)],
                                  MixAndMaster(room, moved, returned))
                        ELSE @]
  /\ UNCHANGED <<sepVars, voice, held, report>>
MixFails ==
  /\ At("mix") /\ CoverFails("ffmpeg")
  /\ UNCHANGED <<sepVars, voice, held, report>>

Deliver ==
  /\ At("deliver")
  /\ cover' = [cover EXCEPT !.at = "delivered",
                 !.result = With(@, [codec |-> SaveAudio(ExportSuffix(cover.request.suffix))])]
  /\ UNCHANGED <<sepVars, voice, held, report>>

-----------------------------------------------------------------------------
(* Commands that leave no cover; each is a process of its own *)

Analyze(s) ==
  /\ At("idle") /\ report = <<>>
  /\ report' = [sample |-> s, said |-> AnalyzeVocal(s.curve, s.rms, s.correlation, Report),
                track |-> F0Track(s.curve, Report.points)]
  /\ UNCHANGED <<sepVars, voice, cover, held>>
VerifyBackends ==
  /\ At("idle") /\ report = <<>>
  /\ \/ \E ok \in Outcomes, fcpe \in BOOLEAN : Verify(ok, fcpe)
     \/ VerifyTorn
  /\ UNCHANGED <<voice, cover, held, report>>

Next ==
  \/ \E r \in Requests : Request(r)
  \/ \E a \in Arguments : Command(a)
  \/ SeparateStarts \/ SeparateRuns \/ SeparateEnds
  \/ ExtractorLoads \/ ExtractorFails \/ \E raw \in RawCurves : Extract(raw) \/ Profile(raw)
  \/ Decide \/ Advise \/ VoiceLoads \/ VoiceFails
  \/ \E plan \in ChunkPlans, drift \in -1..1 : Convert(plan, drift)
  \/ \E off \in -1..1 : Measure(off)
  \/ \E returned \in {Mix.frames, Mix.frames - 1}, score \in Scores, louder \in Loudness :
       Mixed(returned, score, louder)
  \/ MixFails \/ Deliver
  \/ \E s \in Samples : Analyze(s)
  \/ VerifyBackends

Spec == Init /\ [][Next]_vars

-----------------------------------------------------------------------------
(* Properties *)

Backends == [backend : ComputeBackend, component : Component, implementation : {"torchfcpe", "rmvpe", "rvc"}]

\* What `svc analyze` reports is in the song: a stretch of singing begins and ends
\* with a voiced frame and is apart from the next by more than a breath, and the
\* excerpt is a whole window, of a song that has a frame (segments.py,
\* preview_picker.py).
ReportsTheSong ==
  report # <<>> =>
    LET s == report.sample  said == report.said  n == Len(s.curve) IN
    /\ \A g \in said.segments : g[2] <= n /\ Voiced(s.curve[g[1] + 1]) /\ Voiced(s.curve[g[2]])
    /\ \A g, h \in said.segments : g[1] < h[1] => h[1] - g[2] > Report.bridge
    /\ n > 0 => /\ 0 <= said.preview[1] /\ said.preview[2] <= n
                /\ said.preview[2] - said.preview[1] = Min({n, Report.window})

\* Every variable holds what its part of the program can put there; of a cover
\* that is delivered, the gain, the variant and what was retrieved are in bounds,
\* and where nothing is sung no more is retrieved than elsewhere; the report is in
\* its song.
TypeOK ==
  /\ present \in SUBSET ComputeBackend /\ "cpu" \in present
  /\ sep.at \in {"idle", "model", "attempt", "combine", "cleanup", "separated", "failed", "over"}
  /\ sep.steps \subseteq CleanupStep /\ call \in {"none", "loading", "working"}
  /\ cover.at \in {"idle", "separate", "analyze", "decide", "convert", "measure", "mix", "deliver",
                   "delivered", "written", "profiled", "advised", "failed"}
  /\ cover.device \in ComputeBackend /\ held \subseteq Backends
  /\ At("delivered") => cover.result.gain \in -9..9 /\ cover.result.variant \in 1..Variants
                         /\ cover.result.retrieved.unsung <= cover.result.retrieved.sung
  /\ ReportsTheSong

\* A separation or pitch model is on an accelerator only where a run of that very
\* model from end to end is on record for it (support.py, cover.py), except that
\* the separation library takes a CUDA card wherever there is one.
SeparatesOnProven ==
  LET Proven(c, i, b) ==
        \/ b = "cpu"
        \/ Suffices(ImplementationProof(matrix[c].implementation_proofs, i, b))
        \/ c = "separation" /\ matrix[c].implementation_proofs = {} /\ Suffices(Proof(matrix[c].proofs, b))
  IN  /\ "cuda" \notin present => \A m \in Separators : Proven("separation", m.model, m.backend)
      /\ \A h \in held : h.component = "f0" => Proven("f0", h.implementation, h.backend)

\* The same of the conversion, as support.py and the note of the shipped evidence
\* say: nothing but the processor without a run of it on record.
ProvenOnly ==
  \A h \in held : h.component = "conversion" =>
    h.backend = "cpu" \/ Suffices(ImplementationProof(matrix["conversion"].implementation_proofs, h.implementation, h.backend))

\* What a render works on fits: every stem is as long as the song and the voice
\* can be heard in it, whatever the models returned and the cleanup left
\* (separation/pipeline.py, cleanup.py).  A vocal that svc profile or svc pitch is
\* given is taken as it is.
StemsFit ==
  cover.stems # <<>> =>
    /\ \A k \in DOMAIN cover.stems : cover.stems[k].frames = Mix.frames
    /\ "vocals" \in DOMAIN cover.stems /\ ~Asked("profile") /\ ~Asked("pitch") => cover.stems["vocals"].loud

\* A cover is as long as its song, to the frame, although models, shifter and
\* ffmpeg each return what they like (postfx/mix.py, instrumental.py).
CoverFits == "frames" \in DOMAIN cover.result => cover.result.frames = Mix.frames

\* From the first stem to the file that is delivered, everything is as long as the
\* song: nothing is cut off and nothing slips against anything else.
FitsTheSong == StemsFit /\ CoverFits

\* The models of a cover take turns (cover.py, pipeline.py, backend.py): a pitch
\* model or the voice is alone in memory, a separation loads models while the song
\* is separated only, and an attempt that asks for less finds the card empty,
\* wherever the one before it ran out.  A further model, of an ensemble or of a
\* cleanup pass, is loaded beside the one before it.  What a step loaded is gone
\* when it ends, whatever failed, with one exception: a model stays with its
\* separator when a cleanup pass or the progress hook raises.
ModelsTakeTurns ==
  /\ held # {} => Cardinality(held) = 1 /\ cover.at \in {"analyze", "convert", "measure"} /\ Separators = {}
  /\ call # "none" => At("separate")
  /\ sep.at = "attempt" /\ sep.used /\ call # "working" => loaded = Nothing
  /\ loaded # Nothing => At("separate") \/ (At("failed") /\ cover.why \in {"raised", "cancelled"})

\* A song converted window by window is the song: every place of it comes from
\* that place, and no two places are blended where windows meet (chunking.py).
ConvertedInPlace ==
  \A i \in Frames(cover.out) : cover.out[i] \in {i, Pad}

\* The singing and the music stay in one key: they are moved apart by whole
\* octaves, the music by half an octave at most; the options offered beside the
\* best each move the music differently; and the user is told of a move of the
\* music exactly when there is one (strategy.py, explain.py).
InKey ==
  /\ cover.decision # <<>> =>
       LET d == cover.decision  all == {d.best} \cup Range(d.alternatives) IN
       /\ \A c \in all : (c.semitones - c.remainder) % 12 = 0 /\ Abs(c.remainder) <= 6 /\ d.best.cost <= c.cost
       /\ Cardinality({c.remainder : c \in all}) = 1 + Len(d.alternatives)
  /\ "told" \in DOMAIN cover.result =>
       (cover.result.remainder = 0 <=> cover.result.told.lines[1] = <<>>
                                        \/ cover.result.told.lines[1][3] = "octaves")

\* Out of memory is reported only when nothing is left to ask less of: the last
\* plan is one window at a time, without overlap, and planned for the processor,
\* where it ran unless the library took a CUDA card for it; and a retry never asks
\* for more of anything (oom.py, memory.py).
AsksForLess ==
  [][ /\ sep'.why = "GPU_OOM" /\ sep.why # "GPU_OOM" =>
           /\ Attempt.batch_size = 1 /\ Attempt.overlap = 1 /\ Attempt.backend = "cpu"
           /\ "cuda" \notin present => Placed(Attempt.backend) = "cpu"
      /\ sep.at = "attempt" /\ sep'.at = "attempt" /\ sep'.rungs # sep.rungs =>
           LET old == Head(sep.rungs)  new == Head(sep'.rungs) IN
           /\ new # old /\ new.backend \in {old.backend, "cpu"}
           /\ new.segment_size <= old.segment_size /\ new.overlap <= old.overlap
           /\ new.batch_size <= old.batch_size ]_vars

\* "holding zeros (unvoiced)" (infer.py): every pitch the vocoder is given is one
\* that was sung there, moved by the shift.
InventsNoNote ==
  \A k \in DOMAIN cover.fed : \A i \in Frames(cover.fed[k]) :
    Voiced(cover.fed[k][i]) => cover.fed[k][i] - cover.decision.best.semitones \in Range(cover.curve)
==============================================================================
