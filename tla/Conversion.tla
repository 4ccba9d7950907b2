------------------------------ MODULE Conversion ------------------------------
(***************************************************************************)
(* A vocal in another voice: svc_engine/conversion, and what svc_engine/   *)
(* postfx and svc_engine/tuning make of it.  Frames are the ten            *)
(* milliseconds that a pitch and the window of the voice model both last.  *)
(***************************************************************************)
EXTENDS Pitch

-----------------------------------------------------------------------------
(* chunking.py: a plan cuts a signal into windows <<start, end>> that overlap *)

Overlap(chunk, overlap) == Min({overlap, chunk - 1})
PlanChunks(total, chunk, overlap) ==
  LET hop   == chunk - Overlap(chunk, overlap)
      count == Cardinality({i \in 0..total : i = 0 \/ (i - 1) * hop + chunk < total})
  IN  [overlap |-> IF count = 1 THEN 0 ELSE Overlap(chunk, overlap),
       windows |-> [i \in 1..count |-> <<(i - 1) * hop, Min({(i - 1) * hop + chunk, total})>>]]

\* The stretch of the curve that lines up with a window.
SliceF0(curve, w) ==
  LET start == Min({w[1], Len(curve)})  end == Max({start, Min({w[2], Len(curve)})})
  IN  SubSeq(curve, start + 1, end)

\* A sample is the place in the song it came from; Pad where a buffer was filled
\* up, Smear where two places are heard at once.
Pad   == -1
Smear == -2
Blend(a, b) == IF a = b \/ b = Pad THEN a ELSE IF a = Pad THEN b ELSE Smear
Fit(samples, n) == [i \in 1..n |-> IF i <= Len(samples) THEN samples[i] ELSE Pad]
CrossfadeJoin(left, right, overlap) ==
  LET o == Max({0, Min({overlap, Len(left), Len(right)})})  head == Len(left) - o
  IN  [i \in 1..(head + Len(right)) |->
         IF i <= head THEN left[i]
         ELSE IF i <= Len(left) THEN Blend(left[i], right[i - head]) ELSE right[i - head]]

\* What the voice model makes of a window: all of it, a frame less or one more.
ConvertWindow(w, drift) == [i \in 1..(w[2] - w[1] + drift) |-> w[1] + Min({i, w[2] - w[1]})]

\* Mutant: the pieces are joined as they came back.
UnfittedPiece(w, drift) == ConvertWindow(w, drift)
\* Every piece is as long as its window.
Piece(w, drift) == Fit(ConvertWindow(w, drift), w[2] - w[1])

ConvertInChunks(total, chunk, overlap, drift) ==
  LET plan == PlanChunks(total, chunk, overlap)
      Join[k \in 1..Len(plan.windows)] ==
        IF k = 1 THEN Piece(plan.windows[1], drift[1])
        ELSE CrossfadeJoin(Join[k - 1], Piece(plan.windows[k], drift[k]), plan.overlap)
  IN  Fit(Join[Len(plan.windows)], total)

-----------------------------------------------------------------------------
(* rvc/hubert.py, infer.py, f0.py, index.py: one window through the voice model *)

\* Features come at half the rate, the last of them short, and are doubled.
PLen(frames) == Min({frames, 2 * ((frames - 1) \div 2)})

ApplyUpKey(curve, s) == [i \in Frames(curve) |-> IF Voiced(curve[i]) THEN curve[i] + s ELSE Unvoiced]
\* The pitches that reach the vocoder for one window of the song.
PreparePitch(curve, frames, s) == ApplyUpKey(Resize(curve, PLen(frames)), s)

\* How much of the features is retrieved from the voice's index, in hundredths.
BlendWithIndex(index, rate) == IF index THEN Clip(rate, 0, 100) ELSE 0

\* Mutant: what nothing is sung in takes all that was retrieved, the singing less.
RetrievedSwapped(index, c) ==
  LET blend == BlendWithIndex(index, c.index_rate)
  IN  [unsung |-> blend, sung |-> IF c.protect >= 50 THEN blend ELSE (blend * c.protect) \div 100]

\* That is so where something is sung; where nothing is, protect takes it out again.
Retrieved(index, c) ==
  LET blend == BlendWithIndex(index, c.index_rate)
  IN  [sung |-> blend, unsung |-> IF c.protect >= 50 THEN blend ELSE (blend * c.protect) \div 100]

\* A checkpoint that is not one of the four synthesizers is refused.
Versions == {"v1", "v2"}
LoadRvcModel(file) ==
  IF file.reads /\ file.version \in Versions /\ file.f0 \in {0, 1} /\ file.speakers > 0
    THEN [version |-> file.version, uses_f0 |-> file.f0 = 1] ELSE Refused
\* A retrieval index is used where it is there, readable and faiss installed.
LoadIndex(file, faiss) == file = "whole" /\ faiss

\* What the vocoder is told, window by window: nothing of pitch when the model
\* takes none.
ConvertSegment(model, curve, plan, s) ==
  IF ~model.uses_f0 THEN <<>>
  ELSE [k \in Frames(plan.windows) |->
          LET w == plan.windows[k] IN PreparePitch(SliceF0(curve, w), w[2] - w[1], s)]

-----------------------------------------------------------------------------
(* rvc/rms.py, postfx: levels in decibels *)

\* The level of the source as far as the rate says; one that the pipeline always
\* sets to all of the conversion, for postfx to do it once.
BlendRms(source, converted, rate) == (source * (100 - rate) + converted * rate) \div 100
RepairArtifacts(b) == b
\* The gain, by which the level never moves by more than 9 dB.
MatchEnvelope(source, converted, rate) == Clip(BlendRms(source, converted, rate) - converted, -9, 9)

\* Fraction of a semitone, in cents; nothing was measured without three frames
\* that are voiced in both curves.
CheckMelody(reference, converted, s) ==
  LET n == Max({Len(reference), Len(converted)})
      expected == ApplyUpKey(Resize(reference, n), s)  actual == Resize(converted, n)
      both == SelectSeq([i \in 1..n |-> i], LAMBDA i : Voiced(expected[i]) /\ Voiced(actual[i]))
      errors == SortSeq([i \in Frames(both) |-> 100 * (actual[both[i]] - expected[both[i]])], <)
  IN  IF Len(both) < 3 THEN {} ELSE {errors[(Len(errors) + 1) \div 2]}
\* A stable offset is corrected, by half a semitone at most.
CorrectGlobalPitch(error) ==
  IF error = {} \/ \E e \in error : Abs(e) < 15 THEN 0
  ELSE Clip(-(CHOOSE e \in error : TRUE), -50, 50)

\* A, B or C: the layer of the room that was removed, a new one, or both; none
\* without a layer.
ApplyAmbience(vocal, layer, strategy) ==
  IF layer = {} \/ \A b \in layer : ~b.loud THEN vocal
  ELSE LET original == MatchChannels(FitLength(CHOOSE b \in layer : TRUE, vocal.frames), vocal.channels)
       IN  IF strategy = "B" THEN Add(vocal, vocal) ELSE Add(vocal, original)
OriginalLayerGain(layer, strategy) ==
  IF layer = {} \/ \A b \in layer : ~b.loud THEN 0
  ELSE CASE strategy = "A" -> 100 [] strategy = "B" -> 0 [] strategy = "C" -> 15

\* As long as the music and as wide as the wider of the two, whatever ffmpeg
\* returned; two silent buffers never reach it.
MixAndMaster(vocal, playback, returned) ==
  FitLength(Buffer(IF vocal.loud \/ playback.loud THEN returned ELSE playback.frames,
                   Widest({vocal, playback}), vocal.loud \/ playback.loud), playback.frames)

\* A name that is kept from what the file system cannot take, as WAV unless it
\* is one of three.
ExportSuffix(suffix) == IF suffix \in {".wav", ".mp3", ".flac"} THEN suffix ELSE ".wav"

-----------------------------------------------------------------------------
(* tuning: knobs in hundredths *)

\* The knobs as they are, and three sets near them.
CandidateGrid(base) ==
  <<base,
    [base EXCEPT !.index_rate = Min({100, @ + 15}), !.protect = Min({50, @ + 12})],
    [base EXCEPT !.index_rate = Max({0, @ - 20}), !.rms_mix_rate = Min({100, @ + 20})],
    [base EXCEPT !.protect = Max({0, @ - 13})]>>
\* The best score, and the first of those.
Winner(scores) == Best(Frames(scores), scores)
ValidConfig(c) ==
  /\ c.index_rate \in 0..100 /\ c.protect \in 0..50 /\ c.rms_mix_rate \in 0..100
  /\ c.ambience_strategy \in {"A", "B", "C"} /\ c.playback_strategy \in {"A", "B"}
  /\ c.f0_method \in {"auto", "rmvpe", "fcpe"}
==============================================================================
