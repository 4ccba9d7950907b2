-------------------------- MODULE ModelDownloadProofs --------------------------
(***************************************************************************)
(* What holds of the model files in every state, for any number of files,  *)
(* mirrors, attempts, blocks and engines, whatever mirrors serve and       *)
(* whatever breaks.                                                        *)
(***************************************************************************)
EXTENDS ModelDownload, SequenceTheorems, TLAPS

\* What an engine knows of the files while it works alone: those before the one
\* it is at are right, and the one it fetches is away until it is installed.
WorkKnown(e) ==
  /\ At(e, "use") => proc[e].task = "cover"
  /\ ~orphaned /\ ~At(e, "idle") =>
       /\ window = e
       /\ proc[e].at \notin {"record", "use"} => \A f \in Files : f < File(e) => target[f] = "right"
       /\ At(e, "use") => \A f \in Files : target[f] = "right"
       /\ proc[e].at \in {"request", "receive", "install"} => target[File(e)] = "none"
\* The window was told the truth.
ShownKnown == ~orphaned /\ shown = "ready" => Complete

IInv == TypeOK /\ (\A e \in Engines : WorkKnown(e)) /\ ShownKnown

-----------------------------------------------------------------------------
\* What the proofs use of the constants.
LEMMA Sizes ==
  /\ NFiles \in Nat \ {0} /\ NUrls \in Nat \ {0} /\ Attempts \in Nat \ {0} /\ Size \in Nat \ {0}
  /\ MaxEvents \in Nat /\ MaxLength \in Nat
  BY SizesAssumption

\* A content is a sequence of blocks within the bound, and each such sequence one.
LEMMA Contents ==
  ASSUME NEW c
  PROVE  c \in Content <=> c \in Seq({"right", "wrong"}) /\ Len(c) <= MaxLength
<1>1. ASSUME c \in Content PROVE c \in Seq({"right", "wrong"}) /\ Len(c) <= MaxLength
  <2>1. PICK n \in 0..MaxLength : c \in [1..n -> {"right", "wrong"}]
    BY <1>1 DEF Content
  <2>2. n \in Nat /\ n <= MaxLength
    BY <2>1, Sizes
  <2> QED
    BY <2>1, <2>2
<1>2. ASSUME c \in Seq({"right", "wrong"}), Len(c) <= MaxLength PROVE c \in Content
  <2>1. Len(c) \in 0..MaxLength /\ c \in [1..Len(c) -> {"right", "wrong"}]
    BY <1>2, Sizes, LenProperties
  <2> QED
    BY <2>1 DEF Content
<1> QED
  BY <1>1, <1>2

\* A partial file can be empty.
LEMMA NoContent == <<>> \in Content
<1>1. 0 \in 0..MaxLength /\ <<>> \in [1..0 -> {"right", "wrong"}]
  BY Sizes
<1> QED
  BY <1>1 DEF Content

\* What a mirror serves.
LEMMA Serving ==
  ASSUME TypeOK, NEW e \in Engines
  PROVE  Served(e) \in Seq({"right", "wrong"}) /\ Len(Served(e)) \in 0..MaxLength
<1>1. Served(e) \in Bodies
  BY DEF TypeOK, Proc, Served
<1>2. Served(e) \in Content
  BY <1>1, BodiesAssumption
<1> QED
  BY <1>2, Contents, LenProperties, Sizes

\* One more block leaves a content.
LEMMA Writing ==
  ASSUME TypeOK, NEW e \in Engines, Receive(e)
  PROVE  Written(e) \in Content
<1> DEFINE S == {"right", "wrong"}
           c == part[File(e)]
           n == proc[e].from + 1
           b == Served(e)[n]
           m == IF n > Len(c) THEN n ELSE Len(c)
<1>1. c \in Content /\ proc[e].from \in 0..MaxLength
  BY DEF TypeOK, Proc, File
<1>2. c \in Seq(S) /\ Len(c) \in Nat /\ Len(c) <= MaxLength
  BY <1>1, Contents, LenProperties
<1>3. n \in 1..Len(Served(e)) /\ n \in Nat /\ n <= MaxLength
  BY <1>1, Serving, Sizes DEF Receive
<1>4. b \in S
  BY <1>3, Serving, ElementOfSeq
<1>5. Len(Written(e)) <= MaxLength
  BY DEF Receive
<1>6. CASE proc[e].append
  <2>1. Written(e) = Append(c, b)
    BY <1>6 DEF Written
  <2>2. Append(c, b) \in Seq(S)
    BY <1>2, <1>4, AppendProperties
  <2> QED
    BY <1>5, <2>1, <2>2, Contents
<1>7. CASE ~proc[e].append
  <2>1. Written(e) = [i \in 1..m |-> IF i = n THEN b ELSE IF i <= Len(c) THEN c[i] ELSE "wrong"]
    BY <1>7 DEF Written
  <2>2. \A i \in 1..m : i <= Len(c) => c[i] \in S
    BY <1>2, <1>3, ElementOfSeq
  <2>3. m \in 0..MaxLength
    BY <1>2, <1>3, Sizes
  <2>4. Written(e) \in [1..m -> S]
    <3> HIDE DEF S, c, n, b, m
    <3> QED
      BY <1>4, <2>1, <2>2 DEF S
  <2> QED
    BY <2>3, <2>4 DEF Content
<1> QED
  BY <1>6, <1>7

-----------------------------------------------------------------------------
\* How a step of engine e leaves the engines.
Becomes(e, p) == p \in Proc /\ proc' = [proc EXCEPT ![e] = p]

\* A step that changes what one process does leaves the others alone.
LEMMA Becoming ==
  ASSUME TypeOK, NEW e \in Engines, NEW p, Becomes(e, p)
  PROVE  proc' \in [Engines -> Proc] /\ proc'[e] = p /\ \A d \in Engines \ {e} : proc'[d] = proc[d]
  BY DEF TypeOK, Becomes

\* A process that does nothing is of the right type.
LEMMA Idles == Idle \in Proc /\ Idle.at = "idle"
  BY Sizes DEF Idle, Proc, Files, Urls

\* An engine that turns to another part of its task.
LEMMA TurningTo ==
  ASSUME TypeOK, NEW e \in Engines, NEW a \in {"request", "install", "verify"}, Goto(e, a)
  PROVE  LET p == [Now(e) EXCEPT !.at = a] IN Becomes(e, p) /\ p.at = a /\ p.file = File(e)
<1>1. proc[e] \in Proc /\ 0 \in 0..MaxLength
  BY Sizes DEF TypeOK
<1>2. Now(e) \in Proc /\ Now(e).file = File(e)
  BY <1>1 DEF Proc, Now, File
<1> QED
  BY <1>2 DEF Goto, Becomes, Proc

\* A failed attempt is followed by another request for the same file, or by none.
LEMMA Failing ==
  ASSUME TypeOK, NEW e \in Engines, FailedAttempt(e) \/ NextUrl(e)
  PROVE  \E p : /\ Becomes(e, p) /\ shown' \in {shown, "failed"}
                /\ p.at = "idle" \/ (p.at = "request" /\ p.file = File(e))
<1>1. proc[e] \in Proc
  BY DEF TypeOK
<1> DEFINE retry == [Now(e) EXCEPT !.at = "request", !.try = @ + 1]
           next  == [Now(e) EXCEPT !.at = "request", !.url = @ + 1, !.try = 1]
<1>2. Now(e) \in Proc /\ Now(e).try = proc[e].try /\ Now(e).url = proc[e].url
  <2>1. 0 \in 0..MaxLength
    BY Sizes
  <2> QED
    BY <1>1, <2>1 DEF Proc, Now
<1>3. CASE proc[e].try < Attempts /\ proc' = [proc EXCEPT ![e] = retry] /\ shown' = shown
  <2>1. retry.at = "request" /\ retry.file = File(e)
    BY <1>1 DEF Proc, Now, File
  <2>2. proc[e].try + 1 \in 1..Attempts
    BY <1>1, <1>3, Sizes DEF Proc
  <2>3. retry \in Proc
    BY <1>2, <2>2 DEF Proc
  <2> QED
    BY <1>3, <2>1, <2>3 DEF Becomes
<1>4. CASE proc[e].url < NUrls /\ proc' = [proc EXCEPT ![e] = next] /\ shown' = shown
  <2>1. next.at = "request" /\ next.file = File(e)
    BY <1>1 DEF Proc, Now, File
  <2>2. proc[e].url + 1 \in Urls /\ 1 \in 1..Attempts
    BY <1>1, <1>4, Sizes DEF Proc, Urls
  <2>3. next \in Proc
    BY <1>2, <2>2 DEF Proc
  <2> QED
    BY <1>4, <2>1, <2>3 DEF Becomes
<1>5. CASE Ends(e, "failed")
  BY <1>5, Idles DEF Ends, Becomes
<1> QED
  BY <1>3, <1>4, <1>5 DEF FailedAttempt, NextUrl

\* A file that is right is followed by the next one, or by what they are for.
LEMMA Passing ==
  ASSUME TypeOK, NEW e \in Engines, Passes(e)
  PROVE  \E p : /\ Becomes(e, p)
                /\ p.at = "use" => p.task = "cover"
                /\ \/ p.at = "examine" /\ File(e) < NFiles /\ p.file = File(e) + 1
                   \/ p.at \in {"record", "use", "idle"} /\ ~(File(e) < NFiles)
<1>1. proc[e] \in Proc
  BY DEF TypeOK
<1> DEFINE next == [Idle EXCEPT !.at = "examine", !.task = proc[e].task, !.file = File(e) + 1]
<1>2. CASE File(e) < NFiles /\ proc' = [proc EXCEPT ![e] = next]
  <2>1. next.at = "examine" /\ next.file = File(e) + 1
    BY DEF Idle
  <2>2. File(e) + 1 \in Files /\ proc[e].task \in {"setup", "cover", "models"}
    BY <1>1, <1>2, Sizes DEF Proc, File, Files
  <2>3. next \in Proc
    BY <2>2, Idles DEF Proc
  <2> QED
    BY <1>2, <2>1, <2>3 DEF Becomes
<1>3. CASE ~(File(e) < NFiles) /\ proc' = [proc EXCEPT ![e] = [Idle EXCEPT !.at = "record"]]
  <2>1. [Idle EXCEPT !.at = "record"].at = "record"
    BY DEF Idle
  <2>2. [Idle EXCEPT !.at = "record"] \in Proc
    BY Idles DEF Proc
  <2> QED
    BY <1>3, <2>1, <2>2 DEF Becomes
<1>4. CASE ~(File(e) < NFiles) /\ proc' = [proc EXCEPT ![e] = [Idle EXCEPT !.at = "use", !.task = "cover"]]
  <2> DEFINE p == [Idle EXCEPT !.at = "use", !.task = "cover"]
  <2>1. p.at = "use" /\ p.task = "cover"
    BY DEF Idle
  <2>2. p \in Proc
    BY Idles DEF Proc
  <2> QED
    BY <1>4, <2>1, <2>2 DEF Becomes
<1>5. CASE ~(File(e) < NFiles) /\ proc' = [proc EXCEPT ![e] = Idle]
  BY <1>5, Idles DEF Becomes
<1> QED
  BY <1>1, <1>2, <1>3, <1>4, <1>5 DEF Passes, Proc

-----------------------------------------------------------------------------
\* The window's engine is alone, so what the others know is undisturbed.
LEMMA OthersKnow ==
  ASSUME IInv, NEW e \in Engines, NEW p, Becomes(e, p), UNCHANGED <<window, orphaned>>, ~At(e, "idle") \/ window = e
  PROVE  \A d \in Engines \ {e} : WorkKnown(d)'
<1>1. \A d \in Engines \ {e} : proc'[d] = proc[d] /\ (~orphaned => At(d, "idle"))
  BY Becoming DEF IInv, WorkKnown
<1> QED
  BY <1>1 DEF IInv, WorkKnown, At

\* An engine that turns to p, with the files as they are or one of them fetched.
LEMMA Turning ==
  ASSUME IInv, NEW e \in Engines, NEW p, Becomes(e, p), ~At(e, "idle"),
         UNCHANGED <<mirror, window, orphaned>>, shown' \in {"closed", "ready", "offered", "failed"},
         marker' \in BOOLEAN, events' \in 0..MaxEvents,
         part' \in [Files -> Content], target' \in [Files -> {"none", "right", "wrong"}],
         WorkKnown(e)', ShownKnown'
  PROVE  IInv'
<1>1. TypeOK'
  BY Becoming DEF IInv, TypeOK
<1>2. \A d \in Engines : WorkKnown(d)'
  BY OthersKnow
<1> QED
  BY <1>1, <1>2 DEF IInv

\* A file that is right is passed over.
LEMMA PassSteps ==
  ASSUME IInv, NEW e \in Engines, Present(e) \/ Verified(e)
  PROVE  IInv'
<1>1. /\ TypeOK /\ WorkKnown(e) /\ ~At(e, "idle") /\ proc[e].at \in {"examine", "verify"}
      /\ target[File(e)] = "right" /\ Passes(e)
      /\ UNCHANGED <<target, part, marker, mirror, window, shown, orphaned, events>>
  BY DEF IInv, Present, Verified, At
<1>2. PICK p : /\ Becomes(e, p)
               /\ p.at = "use" => p.task = "cover"
               /\ \/ p.at = "examine" /\ File(e) < NFiles /\ p.file = File(e) + 1
                  \/ p.at \in {"record", "use", "idle"} /\ ~(File(e) < NFiles)
  BY <1>1, Passing
<1>3. proc'[e] = p
  BY <1>1, <1>2, Becoming
<1>4. File(e) \in Files /\ Files = 1..NFiles /\ NFiles \in Nat
  BY <1>1, Sizes DEF TypeOK, Proc, File, Files
<1>5. WorkKnown(e)'
  <2>1. ASSUME ~orphaned PROVE \A f \in Files : f <= File(e) => target[f] = "right"
    BY <1>1, <1>4, <2>1 DEF WorkKnown, At
  <2>2. CASE p.at = "examine" /\ File(e) < NFiles /\ p.file = File(e) + 1
    <3>1. ASSUME ~orphaned PROVE \A f \in Files : f < p.file => target[f] = "right"
      BY <1>4, <2>1, <2>2, <3>1
    <3> QED
      BY <1>1, <1>3, <2>2, <3>1 DEF WorkKnown, At, File
  <2>3. CASE p.at \in {"record", "use", "idle"} /\ ~(File(e) < NFiles)
    <3>1. ASSUME ~orphaned PROVE \A f \in Files : target[f] = "right"
      BY <1>4, <2>1, <2>3, <3>1
    <3> QED
      BY <1>1, <1>2, <1>3, <2>3, <3>1 DEF WorkKnown, At
  <2> QED
    BY <1>2, <2>2, <2>3
<1>6. ShownKnown'
  BY <1>1 DEF IInv, ShownKnown, Complete
<1> QED
  BY <1>1, <1>2, <1>5, <1>6, Turning DEF TypeOK

\* A task ends: nothing is said of the setup but what is true.
LEMMA EndSteps ==
  ASSUME IInv, NEW e \in Engines, NoSpace(e) \/ DiskFull(e) \/ EngineDies(e) \/ Record(e) \/ Use(e)
  PROVE  IInv'
<1>1. /\ TypeOK /\ WorkKnown(e) /\ ShownKnown /\ ~At(e, "idle") /\ UNCHANGED <<target, mirror, window, orphaned>>
      /\ proc' = [proc EXCEPT ![e] = Idle] /\ shown' \in {"ready", "failed", shown}
  BY DEF IInv, NoSpace, DiskFull, EngineDies, Record, Use, Ends, At
<1>2. Becomes(e, Idle) /\ proc'[e] = Idle
  BY <1>1, Idles, Becoming DEF Becomes
<1>3. WorkKnown(e)'
  BY <1>2, Idles DEF WorkKnown, At
<1>4. marker' \in BOOLEAN /\ (marker => marker')
  BY <1>1 DEF TypeOK, NoSpace, DiskFull, EngineDies, Record, Use
<1>5. events' \in 0..MaxEvents
  BY <1>1, Sizes DEF TypeOK, NoSpace, DiskFull, EngineDies, Record, Use, Happens
<1>6. part' \in [Files -> Content]
  <2>1. CASE DiskFull(e)
    BY <1>1, <2>1, NoContent DEF TypeOK, DiskFull
  <2>2. CASE ~DiskFull(e)
    BY <1>1, <2>2 DEF TypeOK, NoSpace, EngineDies, Record, Use
  <2> QED
    BY <2>1, <2>2
<1>7. ShownKnown'
  <2>1. CASE shown' \in {shown, "failed"}
    BY <1>1, <1>4, <2>1 DEF ShownKnown, Complete
  <2>2. CASE shown' # shown /\ shown' = "ready"
    <3>1. Record(e) /\ \A f \in Files : target[f] = "right"
      BY <1>1, <2>2 DEF NoSpace, DiskFull, EngineDies, Record, Use, Ends, WorkKnown, At
    <3> QED
      BY <1>1, <3>1 DEF Record, ShownKnown, Complete
  <2> QED
    BY <1>1, <2>1, <2>2
<1> QED
  BY <1>1, <1>2, <1>3, <1>4, <1>5, <1>6, <1>7, Turning DEF TypeOK

\* An attempt fails: the file stays away, and is asked for again or given up.
LEMMA FailSteps ==
  ASSUME IInv, NEW e \in Engines, Refused(e) \/ Dropped(e) \/ InstallFails(e) \/ Mismatch(e)
  PROVE  IInv'
<1>1. /\ TypeOK /\ WorkKnown(e) /\ ShownKnown /\ ~At(e, "idle") /\ UNCHANGED <<part, marker, mirror, window, orphaned>>
      /\ FailedAttempt(e) \/ NextUrl(e)
      /\ proc[e].at \in {"request", "receive", "install", "verify"}
  BY DEF IInv, Refused, Dropped, InstallFails, Mismatch, At
<1>2. PICK p : /\ Becomes(e, p) /\ shown' \in {shown, "failed"}
               /\ p.at = "idle" \/ (p.at = "request" /\ p.file = File(e))
  BY <1>1, Failing
<1>3. proc'[e] = p /\ File(e) \in Files
  BY <1>1, <1>2, Becoming DEF TypeOK, Proc, File
<1>4. events' \in 0..MaxEvents
  BY <1>1, Sizes DEF TypeOK, Refused, Dropped, InstallFails, Mismatch, Happens
<1>5. /\ target' \in [Files -> {"none", "right", "wrong"}]
      /\ \A f \in Files : target[f] = "right" => target'[f] = "right"
      /\ ~orphaned => target'[File(e)] = "none"
  <2>1. CASE Mismatch(e)
    BY <1>1, <1>3, <2>1 DEF TypeOK, Mismatch
  <2>2. CASE Refused(e) \/ Dropped(e) \/ InstallFails(e)
    BY <1>1, <2>2 DEF TypeOK, Refused, Dropped, InstallFails, WorkKnown, At
  <2> QED
    BY <2>1, <2>2
<1>6. WorkKnown(e)'
  BY <1>1, <1>2, <1>3, <1>5 DEF WorkKnown, At, File
<1>7. ShownKnown'
  BY <1>1, <1>2, <1>5 DEF ShownKnown, Complete
<1> QED
  BY <1>1, <1>2, <1>4, <1>5, <1>6, <1>7, Turning DEF TypeOK

\* A file that is not right is taken away and asked for.
LEMMA MissingStep ==
  ASSUME IInv, NEW e \in Engines, Missing(e)
  PROVE  IInv'
<1> DEFINE p == [Now(e) EXCEPT !.at = "request"]
<1>1. /\ TypeOK /\ WorkKnown(e) /\ ShownKnown /\ At(e, "examine") /\ target[File(e)] # "right"
      /\ target' = [target EXCEPT ![File(e)] = "none"] /\ Goto(e, "request")
      /\ UNCHANGED <<part, marker, mirror, window, shown, orphaned, events>>
  BY DEF IInv, Missing
<1>2. Becomes(e, p) /\ p.at = "request" /\ p.file = File(e) /\ File(e) \in Files
  BY <1>1, TurningTo DEF TypeOK, Proc, File
<1>3. proc'[e] = p
  BY <1>1, <1>2, Becoming
<1>4. /\ target' \in [Files -> {"none", "right", "wrong"}] /\ target'[File(e)] = "none"
      /\ \A f \in Files : target[f] = "right" => target'[f] = "right"
  BY <1>1, <1>2 DEF TypeOK
<1>5. WorkKnown(e)'
  <2> HIDE DEF p
  <2> QED
    BY <1>1, <1>2, <1>3, <1>4 DEF WorkKnown, At, File
<1>6. ShownKnown'
  BY <1>1, <1>4 DEF ShownKnown, Complete
<1>7. ~At(e, "idle")
  BY <1>1 DEF At
<1> QED
  BY <1>1, <1>2, <1>4, <1>5, <1>6, <1>7, Turning DEF TypeOK

\* A body is asked for, comes and is moved into place.
LEMMA FetchSteps ==
  ASSUME IInv, NEW e \in Engines, Answered(e) \/ BodyEnds(e) \/ Receive(e)
  PROVE  IInv'
<1>1. /\ TypeOK /\ WorkKnown(e) /\ ShownKnown /\ ~At(e, "idle") /\ proc[e].at \in {"request", "receive"}
      /\ UNCHANGED <<target, marker, mirror, window, orphaned, events>>
      /\ proc[e] \in Proc /\ File(e) \in Files
  BY DEF IInv, Answered, BodyEnds, Receive, At, TypeOK, Proc, File
<1>2. /\ \E p : Becomes(e, p) /\ (p.at = "idle" \/ (p.at \in {"request", "receive", "install"} /\ p.file = File(e)))
      /\ shown' \in {shown, "failed"}
  <2>1. CASE Goto(e, "install") /\ shown' = shown
    BY <1>1, <2>1, TurningTo
  <2>2. CASE FailedAttempt(e)
    BY <1>1, <2>2, Failing
  <2>3. ASSUME NEW ranged \in BOOLEAN, NEW n \in 0..MaxLength, shown' = shown,
               proc' = [proc EXCEPT ![e].at = "receive", ![e].append = ranged, ![e].from = n]
        PROVE  \E p : Becomes(e, p) /\ p.at = "receive" /\ p.file = File(e)
    <3> DEFINE p == [proc[e] EXCEPT !.at = "receive", !.append = ranged, !.from = n]
    <3>1. p \in Proc /\ p.at = "receive" /\ p.file = File(e)
      BY <1>1 DEF Proc, File
    <3>2. proc' = [proc EXCEPT ![e] = p]
      BY <2>3
    <3> QED
      BY <3>1, <3>2 DEF Becomes
  <2>4. CASE Answered(e)
    <3> DEFINE ranged == Have(e) > 0 /\ mirror[proc[e].url].ranges
    <3>1. Have(e) \in 0..MaxLength /\ 0 \in 0..MaxLength
      BY <1>1, Contents, LenProperties, Sizes DEF TypeOK, Have
    <3>2. \/ Goto(e, "install") /\ shown' = shown
          \/ /\ proc' = [proc EXCEPT ![e].at = "receive", ![e].append = ranged,
                                     ![e].from = IF ranged THEN Have(e) ELSE 0]
             /\ shown' = shown
      BY <2>4 DEF Answered
    <3>3. ranged \in BOOLEAN /\ (IF ranged THEN Have(e) ELSE 0) \in 0..MaxLength
      BY <3>1
    <3> HIDE DEF ranged
    <3> QED
      BY <2>1, <2>3, <3>2, <3>3
  <2>5. CASE BodyEnds(e)
    BY <2>1, <2>5 DEF BodyEnds
  <2>6. CASE Receive(e)
    <3>1. CASE proc' = [proc EXCEPT ![e].from = @ + 1] /\ shown' = shown
      <4> DEFINE p == [proc[e] EXCEPT !.from = @ + 1]
      <4>1. proc[e].from + 1 \in 0..MaxLength
        BY <1>1, <2>6, Serving, Sizes DEF Receive, Proc
      <4>2. p \in Proc /\ p.at = "receive" /\ p.file = File(e)
        BY <1>1, <2>6, <4>1 DEF Proc, File, Receive, At
      <4>3. proc' = [proc EXCEPT ![e] = p]
        BY <3>1
      <4> QED
        BY <3>1, <4>2, <4>3 DEF Becomes
    <3> QED
      BY <2>2, <2>6, <3>1 DEF Receive
  <2> QED
    BY <2>4, <2>5, <2>6
<1>3. PICK p : Becomes(e, p) /\ (p.at = "idle" \/ (p.at \in {"request", "receive", "install"} /\ p.file = File(e)))
  BY <1>2
<1>4. proc'[e] = p
  BY <1>1, <1>3, Becoming
<1>5. part' \in [Files -> Content]
  <2>1. CASE Answered(e)
    BY <1>1, <2>1, NoContent DEF TypeOK, Answered
  <2>2. CASE BodyEnds(e)
    BY <1>1, <2>2 DEF TypeOK, BodyEnds
  <2>3. CASE Receive(e)
    BY <1>1, <2>3, Writing DEF TypeOK, Receive
  <2> QED
    BY <2>1, <2>2, <2>3
<1>6. WorkKnown(e)'
  BY <1>1, <1>3, <1>4 DEF WorkKnown, At, File
<1>7. ShownKnown'
  BY <1>1, <1>2 DEF ShownKnown, Complete
<1> QED
  BY <1>1, <1>2, <1>3, <1>5, <1>6, <1>7, Turning DEF TypeOK

\* What was received is moved under the file's name, and only then looked at.
LEMMA InstallStep ==
  ASSUME IInv, NEW e \in Engines, Install(e)
  PROVE  IInv'
<1> DEFINE p == [Now(e) EXCEPT !.at = "verify"]
           found == IF part[File(e)] = Right THEN "right" ELSE "wrong"
<1>1. /\ TypeOK /\ WorkKnown(e) /\ ShownKnown /\ At(e, "install")
      /\ target' = [target EXCEPT ![File(e)] = found] /\ Goto(e, "verify")
      /\ part' = [part EXCEPT ![File(e)] = <<>>]
      /\ UNCHANGED <<marker, mirror, window, shown, orphaned, events>>
  BY DEF IInv, Install
<1>2. Becomes(e, p) /\ p.at = "verify" /\ p.file = File(e) /\ File(e) \in Files /\ found \in {"right", "wrong"}
  BY <1>1, TurningTo DEF TypeOK, Proc, File
<1>3. proc'[e] = p
  BY <1>1, <1>2, Becoming
<1>4. /\ target' \in [Files -> {"none", "right", "wrong"}] /\ part' \in [Files -> Content]
      /\ \A f \in Files \ {File(e)} : target'[f] = target[f]
  BY <1>1, <1>2, NoContent DEF TypeOK
<1>5. WorkKnown(e)'
  <2>1. \A f \in Files : f < File(e) => f # File(e)
    BY <1>2, Sizes DEF Files
  <2> HIDE DEF p, found
  <2> QED
    BY <1>1, <1>2, <1>3, <1>4, <2>1 DEF WorkKnown, At, File
<1>6. ShownKnown'
  BY <1>1, <1>2 DEF ShownKnown, Complete, WorkKnown, At
<1>7. ~At(e, "idle")
  BY <1>1 DEF At
<1> QED
  BY <1>1, <1>2, <1>4, <1>5, <1>6, <1>7, Turning DEF TypeOK

\* A task begins, a window opens or dies.
LEMMA WindowSteps ==
  ASSUME IInv, (\E e \in Engines : Setup(e) \/ Cover(e) \/ ModelsCommand(e) \/ Open(e)) \/ WindowDies
  PROVE  IInv'
<1>1. ASSUME NEW e \in Engines, NEW task \in {"setup", "cover"}, Begin(e, task) PROVE IInv'
  <2> DEFINE p == [Idle EXCEPT !.at = "examine", !.task = task]
  <2>1. /\ TypeOK /\ ShownKnown /\ window = e /\ proc' = [proc EXCEPT ![e] = p]
        /\ UNCHANGED <<target, part, marker, mirror, window, shown, orphaned, events>>
    BY <1>1 DEF IInv, Begin
  <2>2. p.at = "examine" /\ p.file = 1
    BY DEF Idle
  <2>3. Becomes(e, p)
    BY <2>1, Idles DEF Becomes, Proc
  <2> HIDE DEF p
  <2>4. proc' \in [Engines -> Proc] /\ proc'[e] = p
    BY <2>1, <2>3, Becoming
  <2>5. \A f \in Files : ~(f < 1)
    BY Sizes DEF Files
  <2>6. WorkKnown(e)'
    BY <2>1, <2>2, <2>4, <2>5 DEF WorkKnown, At, File
  <2>7. \A d \in Engines : WorkKnown(d)'
    BY <2>1, <2>3, <2>6, OthersKnow
  <2>8. TypeOK'
    BY <2>1, <2>4 DEF TypeOK
  <2> QED
    BY <2>1, <2>7, <2>8 DEF IInv, ShownKnown, Complete
<1>2. ASSUME NEW e \in Engines, ModelsCommand(e) PROVE IInv'
  <2> DEFINE p == [Idle EXCEPT !.at = "examine", !.task = "models"]
  <2>1. /\ TypeOK /\ proc' = [proc EXCEPT ![e] = p] /\ orphaned' = TRUE
        /\ UNCHANGED <<target, part, marker, mirror, window, shown>>
    BY <1>2 DEF IInv, ModelsCommand
  <2>2. p.at = "examine"
    BY DEF Idle
  <2>3. Becomes(e, p)
    BY <2>1, Idles DEF Becomes, Proc
  <2> HIDE DEF p
  <2>4. proc' \in [Engines -> Proc] /\ proc'[e] = p /\ \A d \in Engines \ {e} : proc'[d] = proc[d]
    BY <2>1, <2>3, Becoming
  <2>5. events' \in 0..MaxEvents
    BY <1>2, <2>1, Sizes DEF TypeOK, ModelsCommand, Happens
  <2>6. \A d \in Engines : WorkKnown(d)'
    BY <2>1, <2>2, <2>4 DEF IInv, WorkKnown, At
  <2>7. TypeOK'
    BY <2>1, <2>4, <2>5 DEF TypeOK
  <2> QED
    BY <2>1, <2>6, <2>7 DEF IInv, ShownKnown
<1>3. ASSUME NEW e \in Engines, Open(e) PROVE IInv'
  <2>1. TypeOK'
    BY <1>3 DEF IInv, TypeOK, Open
  <2>2. \A d \in Engines : WorkKnown(d)'
    <3>1. ~orphaned => \A d \in Engines : At(d, "idle")
      BY <1>3, NoneAssumption DEF IInv, WorkKnown, Open
    <3> QED
      BY <1>3, <3>1 DEF IInv, WorkKnown, Open, At
  <2> QED
    BY <1>3, <2>1, <2>2 DEF IInv, ShownKnown, Open, Complete
<1>4. CASE WindowDies
  <2>1. events' \in 0..MaxEvents
    BY <1>4, Sizes DEF IInv, TypeOK, WindowDies, Happens
  <2>2. TypeOK'
    BY <1>4, <2>1 DEF IInv, TypeOK, WindowDies
  <2>3. \A d \in Engines : WorkKnown(d)'
    BY <1>4 DEF IInv, WorkKnown, WindowDies, At, File
  <2> QED
    BY <1>4, <2>2, <2>3 DEF IInv, ShownKnown, WindowDies
<1> QED
  BY <1>1, <1>2, <1>3, <1>4 DEF Setup, Cover

-----------------------------------------------------------------------------
\* The inductive invariant, in every state.
THEOREM Invariance == Spec => []IInv
<1>1. Init => IInv
  <2> SUFFICES ASSUME Init PROVE IInv
    OBVIOUS
  <2>1. \A e \in Engines : proc[e] = Idle
    BY DEF Init
  <2>2. TypeOK
    <3>1. part \in [Files -> Content] /\ proc \in [Engines -> Proc]
      BY NoContent, Idles DEF Init
    <3>2. events \in 0..MaxEvents
      BY Sizes DEF Init
    <3> QED
      BY <3>1, <3>2 DEF Init, TypeOK
  <2>3. \A e \in Engines : WorkKnown(e)
    BY <2>1, Idles DEF WorkKnown, At
  <2> QED
    BY <2>2, <2>3 DEF Init, IInv, ShownKnown
<1>2. IInv /\ [Next]_vars => IInv'
  <2> SUFFICES ASSUME IInv, [Next]_vars PROVE IInv'
    OBVIOUS
  <2>1. CASE UNCHANGED vars
    BY <2>1 DEF vars, IInv, TypeOK, WorkKnown, ShownKnown, Complete, At, File
  <2>2. ASSUME NEW e \in Engines, Work(e) PROVE IInv'
    BY <2>2, PassSteps, MissingStep, FetchSteps, InstallStep, FailSteps, EndSteps DEF Work, Fetch
  <2>3. ASSUME NEW e \in Engines, Disturb(e) PROVE IInv'
    BY <2>3, EndSteps, FailSteps DEF Disturb
  <2>4. CASE (\E e \in Engines : Setup(e) \/ Cover(e) \/ ModelsCommand(e) \/ Open(e)) \/ WindowDies
    BY <2>4, WindowSteps
  <2> QED
    BY <2>1, <2>2, <2>3, <2>4 DEF Next
<1> QED
  BY <1>1, <1>2, PTL DEF Spec

\* The files, the partial files and what every engine is doing are of their
\* types (TypeOK): no engine leaves the catalogue, the mirrors or the attempts.
THEOREM DownloadTypes == Spec => []TypeOK
<1>1. IInv => TypeOK
  BY DEF IInv
<1> QED
  BY <1>1, Invariance, PTL

\* Weights are loaded, and the setup is reported complete, only when every file
\* is the one the catalogue pins, unless a process works beside the window's.
THEOREM OnlyVerifiedIsUsed == Spec => []UsedIsRight
<1>1. ASSUME IInv PROVE UsedIsRight
  <2>1. ~orphaned => \A e \in Engines : At(e, "use") => \A f \in Files : target[f] = "right"
    BY <1>1 DEF IInv, WorkKnown, At
  <2> QED
    BY <1>1, <2>1 DEF IInv, ShownKnown, UsedIsRight
<1> QED
  BY <1>1, Invariance, PTL

=============================================================================
