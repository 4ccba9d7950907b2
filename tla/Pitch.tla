-------------------------------- MODULE Pitch --------------------------------
(***************************************************************************)
(* How far the singing is moved and how far the music follows it:          *)
(* svc_engine/pitch and the range profile of svc_engine/profiles.  A shift *)
(* is whole octaves, which the music never follows, and a remainder.       *)
(***************************************************************************)
EXTENDS Curves, Audio

\* Mutant: the remainder is that of the division, up to eleven semitones.
DecomposeByDivision(s) == [octaves |-> s \div 12, remainder |-> s % 12]
\* strategy.decompose: the remainder lies between -6 and 5.
Decompose(s) ==
  LET r == ((s + 6) % 12) - 6 IN [octaves |-> (s - r) \div 12, remainder |-> r]

PlaybackPenalty(r) == Abs(r)      \* in sixths
\* In halves.
CostWeights == [comfort |-> 2, absolute |-> 8, median |-> 2, playback |-> 1, quality |-> 2]

-----------------------------------------------------------------------------
(* profile.py, quality_probe.py *)

\* curve: the measured <<shift, penalty>> points, in hundredths; none for a voice
\* that was never measured.
VoiceProfile(range, curve) ==
  [comfort_low |-> range.p05, comfort_high |-> range.p95, median |-> range.p50,
   abs_low |-> range.low, abs_high |-> range.high, quality_vs_shift |-> curve]

Refused == [refused |-> TRUE]      \* an exception the caller did not expect
ComputeProfile(curve, rms) ==
  LET range == ComputeRange(curve, AlignTo(rms, Len(curve)))
  IN  IF range = NoRange THEN Refused ELSE VoiceProfile(range, {})

DEFAULT_PROBE_SHIFTS == {0, -5, -12, -17, 5, 12}
\* What a converted buffer shows of itself: samples that are not numbers, at
\* full scale, and jumps, each in hundredths.
MeasureArtifacts(a) == Min({100, 4 * a.nonfinite + 2 * a.clipped + a.clicks})
\* similarity: hundredths, or 100 where no model of speakers was supplied.
ProbeQualityCurve(artifacts, similarity) ==
  {<<s, Min({100, MeasureArtifacts(artifacts[s]) + 100 - similarity[s]})>> : s \in DEFAULT_PROBE_SHIFTS}

-----------------------------------------------------------------------------
(* strategy.py *)

FromF0(curve, energy) ==
  LET heard == Audible(curve, energy) IN
  IF heard = {} THEN Refused
  ELSE [heard |-> heard, midi |-> curve, weight |-> energy, total |-> WeightOf(heard, energy),
        median |-> WeightedPercentile(curve, energy, 50)]

MassOutside(dist, low, high, s) ==
  WeightOf({i \in dist.heard : dist.midi[i] + s < low \/ dist.midi[i] + s > high}, dist.weight)

QualityPenalty(target, s) ==
  IF target.quality_vs_shift = {} THEN 0 ELSE Interp(s, target.quality_vs_shift)

\* The costs over their common denominator, which is the same for every shift.
EvaluateShift(dist, target, s) ==
  LET d == Decompose(s) IN
  [semitones |-> s, octaves |-> d.octaves, remainder |-> d.remainder,
   cost |-> CostWeights.comfort * 300 * MassOutside(dist, target.comfort_low, target.comfort_high, s)
          + CostWeights.absolute * 300 * MassOutside(dist, target.abs_low, target.abs_high, s)
          + CostWeights.median * 25 * dist.total * Abs(dist.median + s - target.median)
          + CostWeights.playback * 50 * dist.total * PlaybackPenalty(d.remainder)
          + CostWeights.quality * 3 * dist.total * QualityPenalty(target, s)]

Search == -24..24
\* Ties break toward the smaller shift, then the smaller remainder, then downward.
Before(a, b) ==
  LET K(c) == <<c.cost, Abs(c.semitones), Abs(c.remainder), c.semitones>>
  IN  \E i \in 1..4 : K(a)[i] < K(b)[i] /\ \A j \in 1..(i - 1) : K(a)[j] = K(b)[j]

First(all) == CHOOSE c \in all : \A e \in all \ {c} : Before(c, e)
\* What moves the music by something else than c does.
DistinctFrom(c, all) == {e \in all : e.remainder # c.remainder}

\* The best and the first two in the ranking that move the music by what none
\* before them does: the search covers every remainder, so there always are two.
DecideShift(dist, target) ==
  LET all  == {EvaluateShift(dist, target, s) : s \in Search}
      best == First(all)
      rest == DistinctFrom(best, all)
  IN  [best |-> best, alternatives |-> <<First(rest), First(DistinctFrom(First(rest), rest))>>]

-----------------------------------------------------------------------------
(* shifter.py, instrumental.py *)

\* By zero is the buffer itself; otherwise whatever length comes back is fitted.
Shift(b, s, returned) == IF s = 0 THEN b ELSE FitLength([b EXCEPT !.frames = returned], b.frames)

PITCHED == {"bass", "other"}
PRESENT == <<"bass", "other", "drums">>       \* in the order of present()
\* playback: a function of stems for the split strategy, one buffer for the whole
\* one.  What does not suit the strategy is refused.
ShiftWhole(instrumental, r, returned) ==
  FitLength(Shift(instrumental, r, returned), instrumental.frames)
ShiftSplit(stems, r, returned) ==
  LET there == SelectInSeq(PRESENT, LAMBDA k : k \in DOMAIN stems)
      n     == stems[PRESENT[there]].frames
      parts == {FitLength(IF k \in PITCHED THEN Shift(stems[k], r, returned) ELSE stems[k], n) :
                  k \in ToSet(PRESENT) \cap DOMAIN stems}
  IN  IF there = 0 THEN Refused ELSE Buffer(n, Widest(parts), \E b \in parts : b.loud)
ShiftPlayback(playback, split, stems, r, returned) ==
  IF split # stems THEN Refused
  ELSE IF split THEN ShiftSplit(playback, r, returned) ELSE ShiftWhole(playback, r, returned)

-----------------------------------------------------------------------------
(* explain.py *)

Direction(s) == IF s < 0 THEN "lower" ELSE "raise"
\* What the user is told to do to the singing and to the music.
ExplainCandidate(c) ==
  IF c.semitones = 0 THEN <<>>
  ELSE IF c.remainder = 0 THEN <<Direction(c.semitones), Abs(c.semitones), "octaves", Abs(c.octaves)>>
  ELSE <<Direction(c.semitones), Abs(c.semitones), Direction(c.remainder), Abs(c.remainder)>>
ExplainDecision(d, measured) ==
  [lines |-> <<ExplainCandidate(d.best)>> \o [i \in Frames(d.alternatives) |-> ExplainCandidate(d.alternatives[i])],
   warns |-> ~measured]
==============================================================================
