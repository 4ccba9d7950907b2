------------------------------ MODULE TrainingData ------------------------------
(***************************************************************************)
(* The material of a voice (svc_engine/training/quality.py, dataset.py):   *)
(* the checks a set of recordings must pass, and how the cleaned ones are  *)
(* cut into the segments a model is trained on.                            *)
(*                                                                         *)
(* A recording is [levels, vocals, rate, clipped, print]: how loud each of *)
(* its frames is in dB, how loud the separation and cleanup models leave   *)
(* it, its sample rate, how many thousandths of it are clipped, and the    *)
(* direction its timbre points in, a vector of integers of length Unit.    *)
(* A frame of the check and one of the cutting are the same here.          *)
(***************************************************************************)
EXTENDS Integers, Sequences, FiniteSets, SequencesExt

CONSTANT Cut     \* [bridge, pad, shortest, longest, block, warn], in frames
ASSUME CutAssumption ==
  /\ Cut \in [{"bridge", "pad", "shortest", "longest", "block", "warn"} -> Nat]
  /\ 0 < Cut.shortest /\ Cut.shortest <= Cut.longest /\ 2 * Cut.pad <= Cut.bridge + 1

Unit       == 5
TARGET     == 2                                    \* 48 kHz; a recording may have half of it
Recording  == [levels : Seq(Int), vocals : Seq(Int), rate : 1..TARGET, clipped : Nat, print : Seq(Int)]
SILENCE    == -120
Total(s)   == FoldSeq(LAMBDA x, sum : x + sum, 0, s)
Sorted(s)  == SortSeq(s, <)
Percentile(s, p) == IF s = <<>> THEN 0 ELSE Sorted(s)[1 + ((Len(s) - 1) * p) \div 100]
\* Twice the median, so that it is a whole number.
Median2(s) == LET n == Len(s) IN Sorted(s)[(n + 1) \div 2] + Sorted(s)[n \div 2 + 1]
Peak(levels) == Max(Range(levels) \cup {SILENCE})
Clamp(x, lo, hi) == Max({lo, Min({hi, x})})

-----------------------------------------------------------------------------
(* The checks *)

\* Too little sound has no timbre.
Fingerprint(rec) == IF Len(rec.levels) < 2 THEN <<0, 0>> ELSE rec.print

InspectOne(rec) ==
  LET floor == Max({-55, Peak(rec.levels) - 40}) IN
  [frames  |-> Len(rec.levels),
   active  |-> Len(SelectSeq(rec.levels, LAMBDA x : x >= floor)),
   snr     |-> Clamp(Percentile(rec.levels, 75) - Percentile(rec.levels, 10), 0, 80),
   clipped |-> rec.clipped,
   print   |-> Fingerprint(rec)]

Dot(v, w) == v[1] * w[1] + v[2] * w[2]
Centre(files) == [k \in 1..2 |-> Median2([i \in DOMAIN files |-> files[i].print[k]])]
\* (cos + 1) / 2 >= 0.72 for twice the product `middle` with `centre`.
Near(middle, centre) == middle > 0 /\ 10000 * middle * middle >= 7744 * Unit * Unit * Dot(centre, centre)
Along(files, centre) == Near(Median2([i \in DOMAIN files |-> Dot(files[i].print, centre)]), centre)
\* The recordings point where most of them do: the middle one of them does.
Consistent(files)    == Len(files) < 2 \/ Along(files, Centre(files))

Issue(code, severity, found) == IF found THEN {[code |-> code, severity |-> severity]} ELSE {}
TooShort(active) ==
  Issue("too_short", "block", active < Cut.block) \cup Issue("short", "warn", active \in Cut.block..Cut.warn - 1)
Issues(files, strict) ==
  TooShort(Total([i \in DOMAIN files |-> files[i].active]))
  \cup Issue("noise", "warn", Median2([i \in DOMAIN files |-> files[i].snr]) < 24)
  \* More than a thousandth of all is clipped.
  \cup Issue("clipping", "warn", Total([i \in DOMAIN files |-> (files[i].clipped - 1) * files[i].frames]) > 0)
  \cup Issue("speaker_mismatch", IF strict THEN "block" ELSE "warn", ~Consistent(files))
InspectRecordings(recs, strict) == Issues([i \in DOMAIN recs |-> InspectOne(recs[i])], strict)

CanTrain(issues) == \A i \in issues : i.severity # "block"
Score(issues) ==
  LET blocks == Cardinality({i \in issues : i.severity = "block"}) IN
  Clamp(100 - 35 * blocks - 12 * (Cardinality(issues) - blocks), 0, 100)

-----------------------------------------------------------------------------
(* The segments *)

\* What the separation and the cleanup leave of a recording, at the rate of the
\* training: a frame of half the rate is stretched over two.
ProductionCleaner(rec) == [rec EXCEPT !.levels = rec.vocals, !.clipped = 0]
Resample(rec, target) ==
  IF rec.rate = target THEN rec
  ELSE LET n == Len(rec.levels)  m == (n * target) \div rec.rate IN
       [rec EXCEPT !.rate = target, !.levels = [i \in 1..m |-> rec.levels[1 + ((i - 1) * (n - 1)) \div (m - 1)]]]

Active(levels) ==
  LET floor == Max({-45, Peak(levels) - 40}) IN {i \in DOMAIN levels : levels[i] >= floor}
\* A pause of `bridge` frames at most is part of what surrounds it.
Bridge(active) == UNION {p[1]..p[2] : p \in {q \in active \X active : q[2] - q[1] <= Cut.bridge + 1}}
\* <<first, last>> of every run.
Runs(kept) ==
  {r \in kept \X kept : r[1] <= r[2] /\ r[1] - 1 \notin kept /\ r[2] + 1 \notin kept /\ r[1]..r[2] \subseteq kept}
ActiveRegions(levels) == Runs(Bridge(Active(levels)))
\* With `pad` frames on both sides.
Padded(run, n) == <<Max({1, run[1] - Cut.pad}), Min({n, run[2] + Cut.pad})>>

\* The frames of every segment: regions are joined until they are long enough,
\* cut where they are too long, and what is short at the end is dropped.
Span(region) == [i \in 1..region[2] - region[1] + 1 |-> region[1] + i - 1]
Full(all)    == [j \in 1..Len(all) \div Cut.longest |-> SubSeq(all, (j - 1) * Cut.longest + 1, j * Cut.longest)]
Rest(all)    == SubSeq(all, (Len(all) \div Cut.longest) * Cut.longest + 1, Len(all))
Keep(out, rest) ==
  IF Len(rest) < Cut.shortest THEN [out |-> out, pending |-> rest] ELSE [out |-> Append(out, rest), pending |-> <<>>]
Join(out, all)   == Keep(out \o Full(all), Rest(all))
\* Cutting[i] is what has become of the regions that end at frame i at the latest.
Segments(levels) ==
  LET regions == ActiveRegions(levels)
      Cutting[i \in 0..Len(levels)] ==
        IF i = 0 THEN [out |-> <<>>, pending |-> <<>>]
        ELSE LET before == Cutting[i - 1]  Ending == {r \in regions : r[2] = i} IN
             IF Ending = {} THEN before
             ELSE Join(before.out, before.pending \o Span(Padded(CHOOSE r \in Ending : TRUE, Len(levels))))
  IN  Cutting[Len(levels)].out

\* A segment is a recording of its own, quiet enough never to clip; `frames` are
\* those of recording `of` it consists of.
Segment(k, rec, frames) ==
  [levels |-> [i \in DOMAIN frames |-> rec.levels[frames[i]]], vocals |-> rec.vocals, rate |-> rec.rate,
   clipped |-> rec.clipped, print |-> rec.print, of |-> k, frames |-> frames]
CutUp(k, rec, all)  == [j \in DOMAIN all |-> Segment(k, rec, all[j])]
CutUpClean(k, rec)  == CutUp(k, rec, Segments(rec.levels))
Dataset(recordings) ==
  FlattenSeq([k \in DOMAIN recordings |-> CutUpClean(k, Resample(ProductionCleaner(recordings[k]), TARGET))])

\* The one that stands for the voice in the library.
Sample(segments) ==
  segments[Min({k \in DOMAIN segments : \A j \in DOMAIN segments : Len(segments[j].frames) <= Len(segments[k].frames)})]

-----------------------------------------------------------------------------
\* Every segment is as long as the trainer wants it; what is cut from a recording
\* is in the order it was sung, and nothing twice; and only an end too short for a
\* segment is in none (dataset.py, _segments).
CutCleanly(recordings, segments) ==
  /\ \A s \in Range(segments) : Len(s.frames) \in Cut.shortest..Cut.longest
  /\ \A i, j \in DOMAIN segments : \A a \in DOMAIN segments[i].frames, b \in DOMAIN segments[j].frames :
       segments[i].of = segments[j].of /\ (i < j \/ (i = j /\ a < b)) =>
         segments[i].frames[a] < segments[j].frames[b]
  /\ \A k \in DOMAIN recordings :
       LET mine == {j \in DOMAIN segments : segments[j].of = k}
           sung == Active(Resample(ProductionCleaner(recordings[k]), TARGET).levels)
       IN  Cardinality(sung \ UNION {Range(segments[j].frames) : j \in mine}) < Cut.shortest
=================================================================================
