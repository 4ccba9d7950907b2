----------------------------- MODULE MCCoverGraph -----------------------------
EXTENDS CoverGraph

Catalogued(id, kind, free, sdr, main, other) ==
  [id |-> id, kind |-> kind, free |-> free, sdr |-> sdr, stems |-> <<main, other>>]
MCRegistry ==
  {Catalogued("sep_melband_kim", "separation", TRUE, 12, "vocals", "instrumental"),
   Catalogued("sep_melband_kim_ft2", "separation", FALSE, 12, "vocals", "instrumental"),
   Catalogued("dereverb_anvuew", "dereverb", FALSE, 1, "vocals", "ambience"),
   Catalogued("karaoke_aufr33_viperx", "karaoke", FALSE, 8, "lead", "backing")}

Entry(i, b, l) == [implementation |-> i, backend |-> b, level |-> l]
Generic(b, l)  == [backend |-> b, level |-> l]
Shipped ==
  [separation |-> [proofs |-> {Generic("xpu", "ops")},
                   implementation_proofs |-> {Entry("sep_melband_kim", "xpu", "end_to_end")}],
   f0         |-> [proofs |-> {Generic("xpu", "ops")},
                   implementation_proofs |-> {Entry("torchfcpe", "xpu", "end_to_end")}],
   conversion |-> [proofs |-> {Generic("xpu", "ops")},
                   implementation_proofs |-> {Entry("rvc-operator-set", "xpu", "ops")}]]
MCEvidence   == {Shipped}
MCHardware   == {Detect(TRUE, {"xpu"}), Detect(TRUE, {"cuda"})}
MCFreeMemory == {Unknown, 4}
MCMix        == LoadAudio([decodes |-> TRUE, frames |-> 6, channels |-> 2, loud |-> TRUE], FALSE, 6)

Advanced(f0, playback, ambience, tune) ==
  [index_rate |-> 70, protect |-> 33, rms_mix_rate |-> 25, f0_method |-> f0, playback_strategy |-> playback,
   ambience_strategy |-> ambience, auto_tune |-> tune]
Ask(level, preview, private, advanced) ==
  [command |-> "cover", level |-> level, preview |-> preview, private |-> private, cleanup |-> {"dereverb"},
   advanced |-> advanced, suffix |-> ".mp3"]
MCRequests ==
  {Ask("balanced", TRUE, FALSE, Advanced("auto", "A", "B", TRUE)),
   Ask("fast", FALSE, FALSE, Advanced("auto", "B", "B", FALSE))}
Command_line(command, quality, private, method) ==
  [command |-> command, quality |-> quality, private |-> private, cleanup |-> {"denoise", "dereverb", "karaoke"},
   method |-> method, playback |-> "A", ambience |-> "C", suffix |-> ".wav"]
MCArguments ==
  {Command_line("convert", "max", TRUE, "fcpe"), Command_line("separate", "balanced", FALSE, "fcpe"),
   Command_line("profile", "fast", FALSE, "fcpe"), Command_line("pitch", "fast", FALSE, "rmvpe")}

Low  == ComputeProfile(<<40, 43, 45, 0, 48>>, <<2, 1, 1, 1>>)
Measured == [Low EXCEPT !.quality_vs_shift =
  ProbeQualityCurve([s \in DEFAULT_PROBE_SHIFTS |-> [nonfinite |-> 0, clipped |-> Abs(s), clicks |-> 1]],
                    [s \in DEFAULT_PROBE_SHIFTS |-> 90])]
Checkpoint(f0) == [reads |-> TRUE, version |-> "v2", f0 |-> f0, speakers |-> 1]
MCVoices ==
  {[profile |-> Low, consent |-> TRUE, model |-> Checkpoint(1), index |-> "whole", faiss |-> TRUE],
   [profile |-> Measured, consent |-> TRUE, model |-> Checkpoint(0), index |-> "none", faiss |-> TRUE],
   [profile |-> ComputeProfile(<<0, 0>>, <<1>>), consent |-> TRUE, model |-> Checkpoint(1), index |-> "none", faiss |-> FALSE],
   [profile |-> Low, consent |-> FALSE, model |-> Checkpoint(1), index |-> "whole", faiss |-> TRUE]}

MCRawCurves  == {<<52, 52, 0, 55, 57>>, <<60, 0, 64, 65, 0, 67, 67>>, <<>>, <<0, 0>>, <<34, 34, 0, 37>>}
MCChunkPlans == {<<4, 1>>, <<3, 2>>, <<9, 1>>}
MCSamples    == {[curve |-> c, rms |-> e, correlation |-> <<1, 3, 2>>] :
                   c \in {<<>>} \cup [1..6 -> {0, 45}] \cup [1..4 -> {0, 45, 52}], e \in {<<50, 50, 1, 50>>}}
MCReport     == [bridge |-> 1, shortest |-> 2, window |-> 3, stride |-> 2, points |-> 3]
MCOutcomes   == {WORKLOAD_COMPONENTS \X ComputeBackend}
MCScores     == {20, 90}
MCLoudness   == {-20, 4}
===============================================================================
