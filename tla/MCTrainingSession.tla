--------------------------- MODULE MCTrainingSession ---------------------------
EXTENDS TrainingSession

MCCut == [bridge |-> 2, pad |-> 1, shortest |-> 3, longest |-> 5, block |-> 4, warn |-> 8]

Take(levels, vocals, rate, print) ==
  [levels |-> levels, vocals |-> vocals, rate |-> rate, clipped |-> 2, print |-> print]
Loud  == <<-20, -20, -60, -20, -20>>
Song  == <<-20, -70, -20, -30, -75, -80, -72, -20, -25, -20, -60, -20>>   \* two stretches apart
Quiet == <<-90, -90, -90, -90, -90>>

MCRecordings ==
  [good  |-> <<Take(Song, Song, 2, <<3, 4>>), Take(Loud, Loud, 1, <<5, 0>>)>>,
   duet  |-> <<Take(Song, Song, 2, <<5, 0>>), Take(Loud, Loud, 1, <<-5, 0>>)>>,
   short |-> <<Take(<<-20, -20, -90>>, <<-20, -20, -90>>, 2, <<5, 0>>)>>,
   music |-> <<Take(Loud, Quiet, 2, <<5, 0>>)>>]
================================================================================
