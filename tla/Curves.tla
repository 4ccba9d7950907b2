-------------------------------- MODULE Curves --------------------------------
(***************************************************************************)
(* Pitch curves and what is read from them: svc_engine/analysis, and the   *)
(* alignments svc_engine/conversion and svc_engine/postfx make of them.    *)
(*                                                                         *)
(* A curve is a sequence of pitches, one a frame, in semitones; 0 stands   *)
(* for a frame without a pitch.  An energy is a sequence of naturals.      *)
(***************************************************************************)
EXTENDS Integers, Sequences, FiniteSetsExt, SequencesExt, TLC

Unvoiced  == 0
Voiced(p) == p # Unvoiced
Frames(s) == 1..Len(s)

Clip(x, low, high) == Max({low, Min({x, high})})
CeilDiv(a, b)      == -((-a) \div b)
Abs(x)             == IF x < 0 THEN -x ELSE x
\* The first of those that f ranks highest.
Best(set, f)       == CHOOSE i \in set : \A j \in set : f[i] > f[j] \/ (f[i] = f[j] /\ i <= j)

-----------------------------------------------------------------------------
(* Frames that do not line up *)

\* features.align_to: trimmed, or padded with the last value.
AlignTo(v, n) == [i \in 1..n |-> IF v = <<>> THEN 0 ELSE v[Min({i, Len(v)})]]

\* features.frame_rms: a value for every hop begun.
FrameRms(samples, hop) == CeilDiv(samples, hop)

\* f0.resample_f0: the source frame whose centre is nearest, the earlier one of
\* two, if there is one at all.  Centres are compared in halves of a frame of the
\* product of the lengths.
ResampleF0(src, n) ==
  IF src = <<>> THEN <<>>
  ELSE [d \in 1..n |->
     src[Best(Frames(src), [i \in Frames(src) |-> -Abs((2 * d - 1) * Len(src) - (2 * i - 1) * n)])]]

\* numpy.interp over <<x, y>> points no two of which share their x, flat beyond
\* the ends.
Interp(x, points) ==
  LET below == {p \in points : p[1] <= x}
      above == points \ below
      a == CHOOSE p \in below : \A q \in below : q[1] <= p[1]
      b == CHOOSE p \in above : \A q \in above : p[1] <= q[1]
  IN  IF below = {} THEN b[2] ELSE IF above = {} THEN a[2]
      ELSE a[2] + ((b[2] - a[2]) * (x - a[1])) \div (b[1] - a[1])

\* infer._resize, melody_check._align: the ends meet and every frame between
\* lies on the line through its two neighbours.
Resize(v, n) ==
  IF n <= 0 THEN <<>>
  ELSE IF v = <<>> THEN [i \in 1..n |-> Unvoiced]
  ELSE IF Len(v) = n \/ n = 1 THEN [i \in 1..n |-> v[i]]
  ELSE [i \in 1..n |->
          Interp((i - 1) * (Len(v) - 1), {<<(k - 1) * (n - 1), v[k]>> : k \in Frames(v)})]

-----------------------------------------------------------------------------
(* range.py *)

Audible(curve, energy) == {i \in Frames(curve) : Voiced(curve[i]) /\ energy[i] > 0}
WeightOf(set, energy)  ==
  LET Upto[n \in 0..Len(energy)] == IF n = 0 THEN 0 ELSE Upto[n - 1] + (IF n \in set THEN energy[n] ELSE 0)
  IN  Upto[Len(energy)]
\* The frames of a set in the order of their pitch: those before one of them.
Lower(set, curve, i)   == {j \in set : curve[j] < curve[i] \/ (curve[j] = curve[i] /\ j < i)}

\* On the midpoint of every frame's share of the weight, in halves of a percent.
WeightedPercentile(curve, energy, percent) ==
  LET heard == Audible(curve, energy) IN
  Interp(2 * WeightOf(heard, energy) * percent,
         {<<100 * (2 * WeightOf(Lower(heard, curve, i), energy) + energy[i]), curve[i]>> : i \in heard})

NoRange == [voiced_frames |-> 0]
ComputeRange(curve, energy) ==
  LET heard == Audible(curve, energy)  P(x) == WeightedPercentile(curve, energy, x) IN
  IF heard = {} THEN NoRange
  ELSE [p05 |-> P(5), p50 |-> P(50), p95 |-> P(95), voiced_frames |-> Cardinality(heard),
        low |-> Min({curve[i] : i \in heard}), high |-> Max({curve[i] : i \in heard})]

-----------------------------------------------------------------------------
(* segments.py: frames are half-open intervals <<start, end>> counted from 0 *)

\* A committed pitch that is not too quiet beside the loudest frame.
VoicedMask(curve, energy) ==
  {i \in Frames(curve) : Voiced(curve[i]) /\ 25 * energy[i] >= Max(ToSet(energy))}

Runs(set) ==
  {r \in {i - 1 : i \in set} \X set :
     /\ r[1] < r[2] /\ (r[1] + 1)..r[2] \subseteq set
     /\ r[1] \notin set /\ r[2] + 1 \notin set}
Fill(mask, gaps) == mask \cup UNION {(g[1] + 1)..g[2] : g \in gaps}

\* Mutant: short gaps are filled wherever they are.
BridgedAnywhere(mask, n, bridge) == Fill(mask, {r \in Runs((1..n) \ mask) : r[2] - r[1] <= bridge})
\* Short gaps inside the singing are filled; one at either end never is.
Bridged(mask, n, bridge) ==
  Fill(mask, {r \in Runs((1..n) \ mask) : r[1] > 0 /\ r[2] < n /\ r[2] - r[1] <= bridge})

FindVoicedSegments(curve, energy, bridge, shortest) ==
  LET mask == VoicedMask(curve, energy) IN
  IF mask = {} THEN {}
  ELSE {s \in Runs(Bridged(mask, Len(curve), bridge)) : s[2] - s[1] >= shortest}

-----------------------------------------------------------------------------
(* preview_picker.py *)

\* Where windows begin: a stride apart, and one that ends with the song.
WindowStarts(n, win, stride) ==
  IF n <= win THEN {0} ELSE {s \in 0..(n - win) : s % stride = 0 \/ s = n - win}

\* How much of a window is sung, how steadily, how widely, and how much of it is
\* heard again in a window that does not overlap it, each scaled between the
\* least and the most of any window; one that is flat counts for nothing.
Sung(curve, s, win)     == {i \in (s + 1)..(s + win) : Voiced(curve[i])}
Stability(curve, sung) ==
  LET Onward(i) == {j \in sung : i < j}  n == Cardinality(sung)
      steps == WeightOf(sung, [i \in Frames(curve) |->
                 IF Onward(i) = {} THEN 0 ELSE Abs(curve[Min(Onward(i))] - curve[i])])
  IN  IF n < 2 THEN 0 ELSE (100 * (n - 1)) \div (n - 1 + steps)
Width(curve, sung) ==
  LET n == Cardinality(sung)
      P(percent) == Interp(percent * (n - 1), {<<100 * Cardinality(Lower(sung, curve, i)), curve[i]>> : i \in sung})
  IN  IF n < 2 THEN 0 ELSE P(95) - P(5)
Likeness(curve, a, b)   == Cardinality({curve[i] % 12 : i \in a} \cap {curve[i] % 12 : i \in b})
Recurrence(curve, s, starts, win) ==
  Max({0} \cup {Likeness(curve, Sung(curve, s, win), Sung(curve, t, win)) : t \in {u \in starts : Abs(s - u) >= win}})
MinMax(x, all) == IF Max(all) = Min(all) THEN 0 ELSE (100 * (x - Min(all))) \div (Max(all) - Min(all))

\* The first of the best windows, as <<start, end>>.
PickPreview(curve, window, stride) ==
  LET n == Len(curve)  win == Min({n, window})  starts == WindowStarts(n, win, stride)
      Metric(s) == LET sung == Sung(curve, s, win) IN
        <<Cardinality(sung), Stability(curve, sung), Width(curve, sung), Recurrence(curve, s, starts, win)>>
      Part(s, k) == MinMax(Metric(s)[k], {Metric(t)[k] : t \in starts})
      best == Best(starts, [s \in starts |->
                40 * Part(s, 1) + 20 * Part(s, 2) + 15 * Part(s, 3) + 25 * Part(s, 4)])
  IN  IF n = 0 THEN <<>> ELSE <<best, best + win>>

-----------------------------------------------------------------------------
(* key.py, report.py *)

\* The best of the 24 rotated profiles, in the order they are tried; silence is
\* called C major.
EstimateKey(correlation) ==
  IF correlation = <<>> THEN [tonic |-> 0, mode |-> "major", confidence |-> 0]
  ELSE LET first  == Best(Frames(correlation), correlation)
           second == Best(Frames(correlation) \ {first}, correlation)
       IN  [tonic |-> (first - 1) \div 2, mode |-> IF first % 2 = 1 THEN "major" ELSE "minor",
            confidence |-> correlation[first] - correlation[second]]

AnalyzeVocal(curve, rms, correlation, o) ==
  LET energy == AlignTo(rms, Len(curve))
      segments == FindVoicedSegments(curve, energy, o.bridge, o.shortest)
  IN  [range |-> ComputeRange(curve, energy), key |-> EstimateKey(correlation), segments |-> segments,
       sung |-> FoldSet(LAMBDA s, t : s[2] - s[1] + t, 0, segments),
       preview |-> PickPreview(curve, o.window, o.stride)]

\* What the interface draws: every step-th frame, at most about `points` of them.
F0Track(curve, points) ==
  LET step == Max({1, Len(curve) \div points})
  IN  {<<i, curve[i]>> : i \in {j \in Frames(curve) : (j - 1) % step = 0}}
==============================================================================
