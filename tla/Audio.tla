-------------------------------- MODULE Audio --------------------------------
(***************************************************************************)
(* Buffers of sound by their shape: svc_engine/audio.  A buffer is what    *)
(* later steps tell apart: its frames, its channels and whether anything   *)
(* can be heard in it.                                                     *)
(***************************************************************************)
EXTENDS Integers, Sequences, FiniteSetsExt

Buffer(n, c, l) == [frames |-> n, channels |-> c, loud |-> l]

-----------------------------------------------------------------------------
(* buffers.py *)

SilenceLike(b)  == [b EXCEPT !.loud = FALSE]
\* Mutant: a buffer that is too short is left as it is.
FitTrims(b, n) == IF b.frames > n THEN [b EXCEPT !.frames = n] ELSE b

\* Trimmed or padded with silence, never resampled.
FitLength(b, n) == [b EXCEPT !.frames = n]

Shortest(bs)    == Min({b.frames : b \in bs})
Widest(bs)      == Max({b.channels : b \in bs})
AlignAll(bs)    == {FitLength(b, Shortest(bs)) : b \in bs}
\* Sum and difference end where the shorter one does and are as wide as the
\* wider one; what is heard of them is for the caller to say.
Binary(a, b, l) == Buffer(Shortest({a, b}), Widest({a, b}), l)
Add(a, b)       == Binary(a, b, a.loud \/ b.loud)

-----------------------------------------------------------------------------
(* io.py: a file that ffprobe and ffmpeg can make something of *)

Unsupported == "E_AUDIO_UNSUPPORTED"

Channels(file, mono) == IF mono \/ file.channels = 1 THEN 1 ELSE 2     \* 0 reads as 2
\* A slice that ends before the song does, or all there is of it.
LoadAudio(file, mono, duration) ==
  IF ~file.decodes \/ file.frames = 0 \/ duration = 0 THEN Unsupported
  ELSE Buffer(Min({file.frames, duration}), Channels(file, mono), file.loud)

ToMono(b) == [b EXCEPT !.channels = 1]
MatchChannels(b, c) == [b EXCEPT !.channels = c]

\* What a suffix is encoded as; one that is not known becomes a WAV file.
SaveAudio(suffix) ==
  CASE suffix = ".mp3" -> "libmp3lame" [] suffix = ".flac" -> "flac" [] OTHER -> "pcm_s24le"
==============================================================================
