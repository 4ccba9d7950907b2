---------------------------- MODULE ModelDownload ----------------------------
(***************************************************************************)
(* The model files and how they get there: svc_engine/resources, the       *)
(* first-run provisioning and its dialog, the covers that need the files,  *)
(* and the command `svc models --download`.                                *)
(*                                                                         *)
(* A file is fetched block by block into a partial file that every mirror, *)
(* every attempt and every process shares, moved into place when the body  *)
(* has ended, and only then compared with the hash of the catalogue.  An   *)
(* engine whose window is gone fails whenever it reports progress, which   *)
(* counts as one more failed attempt of a download.                        *)
(***************************************************************************)
EXTENDS Naturals, Sequences

CONSTANTS
  NFiles,       \* the files of the core models, in the order of the catalogue
  NUrls,        \* the mirrors of a file, in the order they are tried
  Attempts,     \* attempts_per_url
  Size,         \* blocks in the file the catalogue pins
  Bodies,       \* what a mirror may serve
  Engines,      \* engine processes, or one of `svc models`
  None,
  Faults,       \* the kinds of disturbance that may occur
  MaxEvents,    \* bound: disturbances in a behaviour
  MaxLength     \* bound: blocks in a partial file

ASSUME SizesAssumption ==
  /\ {NFiles, NUrls, Attempts, Size} \subseteq Nat \ {0}
  /\ MaxEvents \in Nat /\ MaxLength \in Nat /\ MaxLength >= Size
ASSUME NoneAssumption == None \notin Engines
ASSUME FaultsAssumption ==
  Faults \subseteq {"drops", "refuses", "diskFull", "locked", "engineDies", "windowDies", "command"}

VARIABLES
  target,       \* target[f]: what stands under the file's own name
  part,         \* part[f]: the partial file beside it, <<>> when there is none
  marker,       \* setup-complete.json exists
  mirror,       \* mirror[u]: the body it serves, and whether it honours ranges
  proc,         \* proc[e]: what each engine is doing
  window,       \* the engine the open window talks to, or None
  shown,        \* what the window last heard of the setup
  orphaned,     \* history: a process has been at work beside the window's engine
  events        \* disturbances that may still occur

vars == <<target, part, marker, mirror, proc, window, shown, orphaned, events>>

Files   == 1..NFiles
Urls    == 1..NUrls
Content == UNION {[1..n -> {"right", "wrong"}] : n \in 0..MaxLength}
Right   == [i \in 1..Size |-> "right"]         \* the content that has the pinned hash

ASSUME BodiesAssumption == Right \in Bodies /\ Bodies \subseteq Content \ {<<>>}

Idle == [at |-> "idle", task |-> "setup", file |-> 1, url |-> 1, try |-> 1, from |-> 0, append |-> FALSE]
Proc == [at     : {"idle", "examine", "request", "receive", "install", "verify", "record", "use"},
         task   : {"setup", "cover", "models"}, file : Files, url : Urls, try : 1..Attempts,
         from   : 0..MaxLength,   \* how much of the body has come
         append : BOOLEAN]        \* the partial file is continued, not started over

TypeOK ==
  /\ target \in [Files -> {"none", "right", "wrong"}]
  /\ part   \in [Files -> Content]
  /\ marker \in BOOLEAN
  /\ mirror \in [Urls -> [body : Bodies, ranges : BOOLEAN]]
  /\ proc   \in [Engines -> Proc]
  /\ window \in Engines \cup {None}
  /\ shown  \in {"closed", "ready", "offered", "failed"}
  /\ orphaned \in BOOLEAN
  /\ events \in 0..MaxEvents

Init ==
  /\ target = [f \in Files |-> "none"] /\ part = [f \in Files |-> <<>>] /\ marker = FALSE
  /\ mirror \in [Urls -> [body : Bodies, ranges : BOOLEAN]]
  /\ \E u \in Urls : mirror[u].body = Right
  /\ proc = [e \in Engines |-> Idle]
  /\ window = None /\ shown = "closed" /\ orphaned = FALSE /\ events = MaxEvents

Happens(f) == f \in Faults /\ events > 0 /\ events' = events - 1

File(e)      == proc[e].file
At(e, p)     == proc[e].at = p
Served(e)    == mirror[proc[e].url].body
Have(e)      == Len(part[File(e)])
Alone(e)     == \A d \in Engines \ {e} : ~(At(d, "receive") /\ File(d) = File(e))
Complete     == marker /\ \A f \in Files : target[f] = "right"    \* Provisioner.status

Now(e)       == [proc[e] EXCEPT !.from = 0, !.append = FALSE]
Goto(e, p)   == proc' = [proc EXCEPT ![e] = [Now(e) EXCEPT !.at = p]]
\* A task ends: an engine without its window stops when it cannot answer.
Ends(e, s)   == /\ proc' = [proc EXCEPT ![e] = Idle]
                /\ shown' = IF window = e /\ proc[e].task = "setup" THEN s ELSE shown

-----------------------------------------------------------------------------
(* DownloadManager.ensure_file *)

\* A file that is present is compared with its hash before every use.
Passes(e) ==
  proc' = [proc EXCEPT ![e] =
    IF File(e) < NFiles THEN [Idle EXCEPT !.at = "examine", !.task = proc[e].task, !.file = File(e) + 1]
    ELSE CASE proc[e].task = "setup"  -> [Idle EXCEPT !.at = "record"]
           [] proc[e].task = "cover"  -> [Idle EXCEPT !.at = "use", !.task = "cover"]
           [] proc[e].task = "models" -> Idle]

\* Mutant: a file that is there is taken for the right one.
PresentByName(e) ==
  /\ At(e, "examine") /\ target[File(e)] # "none" /\ Passes(e)
  /\ UNCHANGED <<target, part, marker, mirror, window, shown, orphaned, events>>

Present(e) ==
  /\ At(e, "examine") /\ target[File(e)] = "right" /\ Passes(e)
  /\ UNCHANGED <<target, part, marker, mirror, window, shown, orphaned, events>>
\* A file that is missing or has another content is fetched, unless the free
\* space was found short before the first one.
Missing(e) ==
  /\ At(e, "examine") /\ target[File(e)] # "right"
  /\ target' = [target EXCEPT ![File(e)] = "none"]
  /\ Goto(e, "request")
  /\ UNCHANGED <<part, marker, mirror, window, shown, orphaned, events>>

NoSpace(e) ==
  /\ At(e, "examine") /\ File(e) = 1 /\ \E f \in Files : target[f] = "none"
  /\ Happens("diskFull") /\ Ends(e, "failed")
  /\ UNCHANGED <<target, part, marker, mirror, window, orphaned>>

\* Mutant: the last mirror is followed by another.
NextUrlPast(e) ==
  /\ proc' = [proc EXCEPT ![e] = [Now(e) EXCEPT !.at = "request", !.url = @ + 1, !.try = 1]]
  /\ UNCHANGED shown

\* The attempts of a mirror, then the mirrors.
NextUrl(e) ==
  IF proc[e].url < NUrls
    THEN proc' = [proc EXCEPT ![e] = [Now(e) EXCEPT !.at = "request", !.url = @ + 1, !.try = 1]] /\ UNCHANGED shown
    ELSE Ends(e, "failed")
FailedAttempt(e) ==
  IF proc[e].try < Attempts
    THEN proc' = [proc EXCEPT ![e] = [Now(e) EXCEPT !.at = "request", !.try = @ + 1]] /\ UNCHANGED shown
    ELSE NextUrl(e)

\* Mutant: 416 is one more failed attempt.
AnsweredNotWhole(e) ==
  LET ranged == Have(e) > 0 /\ mirror[proc[e].url].ranges IN
  /\ At(e, "request")
  /\ IF ranged /\ Have(e) >= Len(Served(e))
       THEN FailedAttempt(e) /\ UNCHANGED part
       ELSE /\ proc' = [proc EXCEPT ![e].at = "receive", ![e].append = ranged,
                                    ![e].from = IF ranged THEN Have(e) ELSE 0]
            /\ part' = IF ranged THEN part ELSE [part EXCEPT ![File(e)] = <<>>]
            /\ UNCHANGED shown
  /\ UNCHANGED <<target, marker, mirror, window, orphaned, events>>

\* The request asks for what is missing.  A partial file as long as the body
\* or longer is answered 416 and taken for the whole; a mirror that honours
\* ranges continues it, any other starts over.
Answered(e) ==
  LET ranged == Have(e) > 0 /\ mirror[proc[e].url].ranges IN
  /\ At(e, "request")
  /\ IF ranged /\ Have(e) >= Len(Served(e))
       THEN Goto(e, "install") /\ UNCHANGED part
       ELSE /\ proc' = [proc EXCEPT ![e].at = "receive", ![e].append = ranged,
                                    ![e].from = IF ranged THEN Have(e) ELSE 0]
            /\ part' = IF ranged THEN part ELSE [part EXCEPT ![File(e)] = <<>>]
  /\ UNCHANGED <<target, marker, mirror, window, shown, orphaned, events>>

Refused(e) ==
  /\ At(e, "request") /\ Happens("refuses") /\ FailedAttempt(e)
  /\ UNCHANGED <<target, part, marker, mirror, window, orphaned>>

\* One block.  A file that is continued grows at its end whoever else writes
\* to it; one that was started over is written where the body stands, and a
\* gap another process left by starting over reads as something else.
Written(e) ==
  LET c == part[File(e)]  at == proc[e].from + 1  b == Served(e)[at] IN
  IF proc[e].append THEN Append(c, b)
  ELSE [i \in 1..(IF at > Len(c) THEN at ELSE Len(c)) |->
          IF i = at THEN b ELSE IF i <= Len(c) THEN c[i] ELSE "wrong"]

Receive(e) ==
  /\ At(e, "receive") /\ proc[e].from < Len(Served(e)) /\ Len(Written(e)) <= MaxLength
  /\ part' = [part EXCEPT ![File(e)] = Written(e)]
  /\ IF window = e \/ proc[e].task = "models"
       THEN proc' = [proc EXCEPT ![e].from = @ + 1] /\ UNCHANGED shown
       ELSE FailedAttempt(e)                       \* the progress report finds no reader
  /\ UNCHANGED <<target, marker, mirror, window, orphaned, events>>

BodyEnds(e) ==
  /\ At(e, "receive") /\ proc[e].from >= Len(Served(e)) /\ Goto(e, "install")
  /\ UNCHANGED <<target, part, marker, mirror, window, shown, orphaned, events>>

Dropped(e) ==
  /\ At(e, "receive") /\ Happens("drops") /\ FailedAttempt(e)
  /\ UNCHANGED <<target, part, marker, mirror, window, orphaned>>

\* A full disk ends the task and frees what the partial file took.
DiskFull(e) ==
  /\ At(e, "receive") /\ Happens("diskFull") /\ Ends(e, "failed")
  /\ part' = [part EXCEPT ![File(e)] = IF Alone(e) THEN <<>> ELSE @]
  /\ UNCHANGED <<target, marker, mirror, window, orphaned>>

\* The whole body is moved into place.  A partial file that another process
\* has taken away or still writes, or a target that is held, is a failed attempt.
Install(e) ==
  /\ At(e, "install") /\ part[File(e)] # <<>> /\ Alone(e)
  /\ target' = [target EXCEPT ![File(e)] = IF part[File(e)] = Right THEN "right" ELSE "wrong"]
  /\ part' = [part EXCEPT ![File(e)] = <<>>]
  /\ Goto(e, "verify")
  /\ UNCHANGED <<marker, mirror, window, shown, orphaned, events>>

InstallFails(e) ==
  /\ At(e, "install")
  /\ IF part[File(e)] # <<>> /\ Alone(e) THEN Happens("locked") ELSE UNCHANGED events
  /\ FailedAttempt(e)
  /\ UNCHANGED <<target, part, marker, mirror, window, orphaned>>

\* Only now is the content compared with the pinned hash.
Verified(e) ==
  /\ At(e, "verify") /\ target[File(e)] = "right" /\ Passes(e)
  /\ UNCHANGED <<target, part, marker, mirror, window, shown, orphaned, events>>

Mismatch(e) ==
  /\ At(e, "verify") /\ target[File(e)] # "right"
  /\ target' = [target EXCEPT ![File(e)] = "none"]
  /\ NextUrl(e)
  /\ UNCHANGED <<part, marker, mirror, window, orphaned, events>>

-----------------------------------------------------------------------------
(* Provisioner.run, the dialog and the window *)

\* Everything is compared once more before the marker is written.
Record(e) ==
  /\ At(e, "record")
  /\ IF \A f \in Files : target[f] = "right"
       THEN marker' = TRUE /\ Ends(e, "ready") ELSE UNCHANGED marker /\ Ends(e, "failed")
  /\ UNCHANGED <<target, part, mirror, window, orphaned, events>>

\* The weights are loaded.
Use(e) ==
  /\ At(e, "use") /\ Ends(e, "ready")
  /\ UNCHANGED <<target, part, marker, mirror, window, orphaned, events>>

Begin(e, task) ==
  /\ window = e /\ At(e, "idle")
  /\ proc' = [proc EXCEPT ![e] = [Idle EXCEPT !.at = "examine", !.task = task]]
  /\ UNCHANGED <<target, part, marker, mirror, window, shown, orphaned, events>>
Setup(e) == shown \in {"offered", "failed"} /\ Begin(e, "setup")
Cover(e) == Begin(e, "cover")                  \* the dialog can be closed

\* svc models --download, a process of its own: nothing is said of the setup, and
\* nobody needs to listen.
ModelsCommand(e) ==
  /\ window # e /\ At(e, "idle") /\ Happens("command")
  /\ proc' = [proc EXCEPT ![e] = [Idle EXCEPT !.at = "examine", !.task = "models"]]
  /\ orphaned' = TRUE
  /\ UNCHANGED <<target, part, marker, mirror, window, shown>>

Open(e) ==
  /\ window = None /\ At(e, "idle")
  /\ window' = e /\ shown' = IF Complete THEN "ready" ELSE "offered"
  /\ UNCHANGED <<target, part, marker, mirror, proc, orphaned, events>>

\* The window's process dies and its engine lives on until it cannot answer.
WindowDies ==
  /\ window # None /\ Happens("windowDies")
  /\ window' = None /\ shown' = "closed"
  /\ orphaned' = (orphaned \/ ~At(window, "idle"))
  /\ UNCHANGED <<target, part, marker, mirror, proc>>

EngineDies(e) ==
  /\ ~At(e, "idle") /\ Happens("engineDies") /\ Ends(e, "failed")
  /\ UNCHANGED <<target, part, marker, mirror, window, orphaned>>

Fetch(e) == Missing(e) \/ Answered(e) \/ Receive(e) \/ BodyEnds(e) \/ Install(e) \/ Mismatch(e)
Work(e)  == Present(e) \/ Fetch(e) \/ InstallFails(e) \/ Verified(e) \/ Record(e) \/ Use(e)
Disturb(e) == NoSpace(e) \/ Refused(e) \/ Dropped(e) \/ DiskFull(e) \/ EngineDies(e)

Next ==
  \/ \E e \in Engines : Work(e) \/ Disturb(e) \/ Setup(e) \/ Cover(e) \/ ModelsCommand(e) \/ Open(e)
  \/ WindowDies

Spec == Init /\ [][Next]_vars

\* A running task goes on; the user opens the window, asks again for a setup
\* that has failed, and makes covers.
FairSpec ==
  /\ Spec
  /\ \A e \in Engines : WF_vars(Work(e)) /\ SF_vars(Setup(e)) /\ SF_vars(Cover(e))
  /\ WF_vars(\E e \in Engines : Open(e))

-----------------------------------------------------------------------------
\* Weights are loaded, and the setup is reported complete, only when every
\* file is the one the catalogue pins, whatever a mirror served and whatever a
\* crash left under the name: the hash is compared before every use, not once
\* (DownloadManager.ensure_file, Provisioner.run).  A process beside the
\* window's engine, a command or an engine that has outlived its window, can
\* still take a file away that was verified.
UsedIsRight ==
  ~orphaned => /\ \A e \in Engines : At(e, "use") => \A f \in Files : target[f] = "right"
               /\ shown = "ready" => Complete

\* However downloads broke off, whatever the partial files hold, the setup
\* comes to its end when the disturbances do and one mirror is good, and a
\* file that a dying engine spoilt is there again after the next cover.
InstalledInTheEnd == <>[]Complete
==============================================================================
