---------------------------- MODULE TrainingSession ----------------------------
(***************************************************************************)
(* One voice-training session (svc_engine/training): a record on disk that *)
(* two kinds of process rewrite as a whole, each from the copy it loaded.  *)
(* The coordinator answers the wizard's requests, one at a time, in the    *)
(* engine process; a detached worker trains for hours, keeps its copy from *)
(* the moment it started, and publishes the voice at the end.  They know   *)
(* of each other by a process id in the record, nothing else.              *)
(*                                                                         *)
(* The wizard decides which requests can be made: a button is offered on   *)
(* the strength of the record the last answer carried.  TrainingData says  *)
(* what the checks find in the recordings and what is cut from them.       *)
(***************************************************************************)
EXTENDS TrainingData

CONSTANTS
  Recordings,   \* Recordings[m]: the recordings of the material named m
  Pids,         \* process ids the operating system may hand out
  Faults,       \* the kinds of disturbance that may occur
  MaxEvents     \* bound: disturbances in a behaviour

Fault == {"buildFails", "popenFails", "workerFails", "workerDies", "powerLoss",
          "engineDies", "dieUnrecorded", "pidReused"}
ASSUME MaterialAssumption ==
  "none" \notin DOMAIN Recordings /\ \A m \in DOMAIN Recordings : Recordings[m] \in Seq(Recording) \ {<<>>}
ASSUME PidsAssumption == Pids # {} /\ IsFiniteSet(Pids) /\ "none" \notin Pids
ASSUME FaultsAssumption == Faults \subseteq Fault /\ MaxEvents \in Nat

VARIABLES
  disk,         \* session.json
  material,     \* the material it names
  dataset,      \* the prepared dataset directory: the material it is cut from
  runtime,      \* the training programs on disk: what is there of them
  voice,        \* the session's voice is in the library
  req, mem,     \* where the coordinator stands, and the record it loaded
  page, shown,  \* the wizard: its page, and the record it was last given
  begin,        \* the wizard's button that starts the training is enabled
  trainer,      \* trainer[p]: where the worker with process id p stands
  copy,         \* copy[p]: that worker's record
  others,       \* process ids in use by unrelated programs
  events        \* disturbances the environment may still cause

vars == <<disk, material, dataset, runtime, voice, req, mem, page, shown, begin, trainer, copy, others, events>>
files   == <<material, dataset, runtime>>
wizard  == <<page, shown, begin>>
workers == <<trainer, copy>>

NoPid == "none"
SessionStage == {"recordings", "quality", "cleaning", "training", "paused",
                 "finalizing", "ready", "failed"}
Record   == [stage : SessionStage, pid : Pids \cup {NoPid}, quality : {"unknown", "pass", "fail"}]
Unmade   == [stage |-> "none", pid |-> NoPid, quality |-> "unknown"]
Requests == {"idle", "inspect", "build", "swap", "gate", "popen", "startSave",
             "kill", "pauseSave", "statusCheck"}
Phases   == <<"preprocess", "extract", "train", "index">>
Trains   == {"preprocess", "extract", "train", "index"}
Ensures  == {"ensure", "install", "place", "models", "config", "copying", "begin"}
Posts    == {"gone", "boot", "hello", "clear", "publish", "done", "exit"} \cup Ensures \cup Trains
Absent   == "none"        \* no dataset
Material == DOMAIN Recordings
\* The materials that pass the first check, of which there is something to train
\* on, whose segments pass the second one, and are cut as they should be.
Inspected == {m \in Material : CanTrain(InspectRecordings(Recordings[m], FALSE))}
Sung      == {m \in Material : Dataset(Recordings[m]) # <<>>}
Passed    == {m \in Sung : CanTrain(InspectRecordings(Dataset(Recordings[m]), TRUE))}
Cleanly   == {m \in Material : CutCleanly(Recordings[m], Dataset(Recordings[m]))}
Programs == [source : BOOLEAN, models : BOOLEAN, config : {"absent", "torn", "whole"}]
Pages    == {"closed", "recordings", "quality", "cleaning", "training", "ready"}

TypeOK ==
  /\ disk    \in Record \cup {Unmade}
  /\ material \in Material \cup {Absent} /\ dataset \in {Absent, material}
  /\ runtime \in Programs
  /\ voice   \in BOOLEAN
  /\ req     \in Requests
  /\ mem     \in Record \cup {Unmade}
  /\ page    \in Pages
  /\ shown   \in Record \cup {Unmade}
  /\ begin   \in BOOLEAN
  /\ trainer \in [Pids -> Posts]
  /\ copy    \in [Pids -> Record \cup {Unmade}]
  /\ others  \in SUBSET Pids
  /\ events  \in 0..MaxEvents

Init ==
  /\ disk = Unmade /\ material = Absent /\ dataset = Absent /\ voice = FALSE
  /\ runtime = [source |-> FALSE, models |-> FALSE, config |-> "absent"]
  /\ req = "idle" /\ mem = Unmade
  /\ page = "closed" /\ shown = Unmade /\ begin = FALSE
  /\ trainer = [p \in Pids |-> "gone"] /\ copy = [p \in Pids |-> Unmade]
  /\ others = {} /\ events = MaxEvents

-----------------------------------------------------------------------------
Live      == {p \in Pids : trainer[p] # "gone"}
Exists(p) == p \in Live \cup others          \* _pid_exists
Happens(f) == f \in Faults /\ events > 0 /\ events' = events - 1

\* The memory of a process goes with it.
Forget(gone) == copy' = [p \in Pids |-> IF p \in gone THEN Unmade ELSE copy[p]]

\* The page _show_session turns to for a record.
PageOf(r) == IF r.stage \in {"training", "paused", "failed", "finalizing"} THEN "training" ELSE r.stage

\* The coordinator answers with record r; the wizard shows it.
Answer(r) == req' = "idle" /\ mem' = Unmade /\ shown' = r /\ page' = PageOf(r) /\ UNCHANGED begin
\* It raises instead: the wizard shows a message and stays where it is.
Refuse    == req' = "idle" /\ mem' = Unmade /\ UNCHANGED wizard

-----------------------------------------------------------------------------
(* The wizard opens and closes *)

Open ==
  /\ page = "closed" /\ req = "idle"
  /\ IF disk = Unmade THEN page' = "recordings" /\ shown' = Unmade
                      ELSE /\ disk.stage \notin {"ready", "recordings"}
                           /\ page' = PageOf(disk) /\ shown' = disk
  /\ UNCHANGED <<disk, files, voice, req, mem, begin, workers, others, events>>

Shut == page' = "closed" /\ shown' = Unmade /\ begin' = FALSE
Close ==
  /\ page # "closed" /\ req = "idle" /\ Shut
  /\ UNCHANGED <<disk, files, voice, req, mem, workers, others, events>>

\* Closing the window ends an idle engine, and kills one that is still cleaning
\* recordings after 2.5 seconds; the other requests are over by then.
CloseWindow ==
  /\ page # "closed" /\ req \in {"idle", "inspect", "build", "swap", "gate"}
  /\ Shut /\ req' = "idle" /\ mem' = Unmade
  /\ UNCHANGED <<disk, files, voice, workers, others, events>>

-----------------------------------------------------------------------------
(* inspect, prepare *)

Create ==
  /\ page = "recordings" /\ req = "idle" /\ disk = Unmade
  /\ disk' = [stage |-> "recordings", pid |-> NoPid, quality |-> "unknown"]
  /\ material' \in Material
  /\ req' = "inspect"
  /\ UNCHANGED <<dataset, runtime, voice, mem, wizard, workers, others, events>>

Inspect ==
  /\ req = "inspect"
  /\ disk' = [disk EXCEPT !.stage = "quality",
       !.quality = IF material \in Inspected THEN "pass" ELSE "fail"]
  /\ Answer(disk')
  /\ UNCHANGED <<files, voice, workers, others, events>>

Prepare ==
  /\ page = "quality" /\ req = "idle" /\ shown.quality = "pass"
  /\ IF disk.quality = "pass"
       THEN /\ disk' = [disk EXCEPT !.stage = "cleaning"]
            /\ mem' = disk' /\ req' = "build"
       ELSE UNCHANGED <<disk, req, mem>>
  /\ page' = "cleaning"
  /\ UNCHANGED <<files, voice, shown, begin, workers, others, events>>

\* The old dataset goes, then the staged one is renamed into place.
Build ==
  /\ req = "build" /\ req' = "swap"
  /\ material \in Sung
  /\ dataset' = Absent
  /\ UNCHANGED <<disk, material, runtime, voice, mem, wizard, workers, others, events>>

\* Nothing was sung in the recordings, or a step failed.
BuildFails ==
  /\ req = "build" /\ Refuse
  /\ IF material \in Sung THEN Happens("buildFails") ELSE UNCHANGED events
  /\ UNCHANGED <<disk, files, voice, workers, others>>

Swap ==
  /\ req = "swap" /\ req' = "gate"
  /\ dataset' = material
  /\ UNCHANGED <<disk, material, runtime, voice, mem, wizard, workers, others, events>>

\* Mutant: the consistency gate is advice, not a condition.
GateAdvises ==
  /\ req = "gate"
  /\ disk' = mem /\ begin' = TRUE /\ shown' = mem /\ page' = page /\ req' = "idle" /\ mem' = Unmade
  /\ UNCHANGED <<files, voice, workers, others, events>>

\* The cleaned segments must pass the speaker-consistency check as well.
Gate ==
  /\ req = "gate"
  /\ IF dataset \in Passed
       THEN disk' = mem /\ begin' = TRUE /\ shown' = mem /\ page' = page /\ req' = "idle" /\ mem' = Unmade
       ELSE disk' = [mem EXCEPT !.quality = "fail", !.stage = "quality"] /\ Refuse
  /\ UNCHANGED <<files, voice, workers, others, events>>

-----------------------------------------------------------------------------
(* start *)

StartOffered == (page = "cleaning" /\ begin) \/ (page = "training" /\ shown.stage \in {"paused", "failed"})

Start ==
  /\ req = "idle" /\ StartOffered
  /\ CASE dataset = Absent                    -> Refuse /\ UNCHANGED disk
       [] dataset # Absent /\ Exists(disk.pid) -> Answer(disk) /\ UNCHANGED disk
       [] OTHER -> /\ disk' = [disk EXCEPT !.stage = "training"]
                   /\ mem' = disk' /\ req' = "popen"
                   /\ UNCHANGED wizard
  /\ UNCHANGED <<files, voice, workers, others, events>>

Popen ==
  /\ req = "popen"
  /\ \E p \in {q \in Pids : ~Exists(q)} :
       /\ trainer' = [trainer EXCEPT ![p] = "boot"]
       /\ mem'     = [mem EXCEPT !.pid = p]
  /\ req' = "startSave"
  /\ UNCHANGED <<disk, files, voice, wizard, copy, others, events>>

PopenFails ==
  /\ req = "popen" /\ Happens("popenFails") /\ Refuse
  /\ UNCHANGED <<disk, files, voice, workers, others>>

\* The worker may have saved the record any number of times by now.
StartSave ==
  /\ req = "startSave"
  /\ disk' = mem /\ Answer(mem)
  /\ UNCHANGED <<files, voice, workers, others, events>>

-----------------------------------------------------------------------------
(* pause, status *)

Load(next) == mem' = disk /\ req' = next

Pause ==
  /\ page = "training" /\ req = "idle" /\ shown.stage \notin {"paused", "failed"}
  /\ Load("kill")
  /\ UNCHANGED <<disk, files, voice, wizard, workers, others, events>>

\* Mutant: only the record is changed, the worker lives on.
KillForgotten ==
  /\ req = "kill" /\ req' = "pauseSave"
  /\ UNCHANGED <<disk, files, voice, mem, wizard, workers, others, events>>

\* Whoever has the process id is killed, with all its children.
Kill ==
  /\ req = "kill" /\ req' = "pauseSave"
  /\ trainer' = [p \in Pids |-> IF p = mem.pid THEN "gone" ELSE trainer[p]]
  /\ Forget({mem.pid})
  /\ others' = others \ {mem.pid}
  /\ UNCHANGED <<disk, files, voice, mem, wizard, events>>

PauseSave ==
  /\ req = "pauseSave"
  /\ disk' = [mem EXCEPT !.pid = NoPid, !.stage = "paused"]
  /\ Answer(disk')
  /\ UNCHANGED <<files, voice, workers, others, events>>

Status ==
  /\ page = "training" /\ req = "idle"
  /\ Load("statusCheck")
  /\ UNCHANGED <<disk, files, voice, wizard, workers, others, events>>

\* Mutant: the answer says paused, the record does not.
StatusForgetsSave ==
  /\ req = "statusCheck"
  /\ Answer(IF mem.pid # NoPid /\ ~Exists(mem.pid) /\ mem.stage = "training"
              THEN [mem EXCEPT !.pid = NoPid, !.stage = "paused"] ELSE mem)
  /\ UNCHANGED <<disk, files, voice, workers, others, events>>

StatusCheck ==
  /\ req = "statusCheck"
  /\ IF mem.pid # NoPid /\ ~Exists(mem.pid) /\ mem.stage = "training"
       THEN disk' = [mem EXCEPT !.pid = NoPid, !.stage = "paused"] /\ Answer(disk')
       ELSE UNCHANGED disk /\ Answer(mem)
  /\ UNCHANGED <<files, voice, workers, others, events>>

-----------------------------------------------------------------------------
(* The worker *)

Move(p, from, to) == trainer[p] = from /\ trainer' = [trainer EXCEPT ![p] = to]
SaveCopy(p, r)    == copy' = [copy EXCEPT ![p] = r] /\ disk' = r
WorkerRest        == UNCHANGED <<material, dataset, req, mem, wizard, others>>

Boot(p) ==
  /\ Move(p, "boot", "hello")
  /\ copy' = [copy EXCEPT ![p] = [disk EXCEPT !.pid = p]]
  /\ WorkerRest /\ UNCHANGED <<runtime, disk, voice, events>>

Hello(p) ==
  /\ Move(p, "hello", "ensure") /\ SaveCopy(p, copy[p])
  /\ WorkerRest /\ UNCHANGED <<runtime, voice, events>>

\* ApplioRuntime.ensure: programs that are not there are fetched, checked and
\* unpacked aside; what there is of them goes, the voice models in it too.
EnsureSource(p) ==
  /\ Move(p, "ensure", IF runtime.source THEN "models" ELSE "install")
  /\ WorkerRest /\ UNCHANGED <<disk, copy, runtime, voice, events>>
InstallClears(p) ==
  /\ Move(p, "install", "place")
  /\ runtime' = [source |-> FALSE, models |-> FALSE, config |-> "absent"]
  /\ WorkerRest /\ UNCHANGED <<disk, copy, voice, events>>
InstallPlaces(p) ==
  /\ Move(p, "place", "models")
  /\ runtime' = [runtime EXCEPT !.source = TRUE]
  /\ WorkerRest /\ UNCHANGED <<disk, copy, voice, events>>
EnsureModels(p) ==
  /\ Move(p, "models", "config")
  /\ runtime' = [runtime EXCEPT !.models = TRUE]
  /\ WorkerRest /\ UNCHANGED <<disk, copy, voice, events>>
\* The settings are copied in place, if there are none.
EnsureConfig(p) ==
  /\ IF runtime.config = "absent"
       THEN Move(p, "config", "copying") /\ runtime' = [runtime EXCEPT !.config = "torn"]
       ELSE Move(p, "config", "begin") /\ UNCHANGED runtime
  /\ WorkerRest /\ UNCHANGED <<disk, copy, voice, events>>
ConfigCopied(p) ==
  /\ Move(p, "copying", "begin")
  /\ runtime' = [runtime EXCEPT !.config = "whole"]
  /\ WorkerRest /\ UNCHANGED <<disk, copy, voice, events>>

BeginTraining(p) ==
  /\ Move(p, "begin", Phases[1]) /\ SaveCopy(p, [copy[p] EXCEPT !.stage = "training"])
  /\ WorkerRest /\ UNCHANGED <<runtime, voice, events>>

\* An epoch is over.
Epoch(p) ==
  /\ Move(p, "train", "train") /\ SaveCopy(p, copy[p])
  /\ WorkerRest /\ UNCHANGED <<runtime, voice, events>>

\* One program after the other.
NextPhase(p) ==
  /\ \E k \in 1..3 : Move(p, Phases[k], Phases[k + 1])
  /\ SaveCopy(p, copy[p])
  /\ WorkerRest /\ UNCHANGED <<runtime, voice, events>>

Finalizing(p) ==
  /\ Move(p, Phases[4], "clear") /\ SaveCopy(p, [copy[p] EXCEPT !.stage = "finalizing"])
  /\ WorkerRest /\ UNCHANGED <<runtime, voice, events>>

\* finalize: the voice is staged aside; an older one of that id is removed.
ClearVoice(p) ==
  /\ Move(p, "clear", "publish") /\ voice' = FALSE
  /\ WorkerRest /\ UNCHANGED <<runtime, disk, copy, events>>

\* Mutant: the record says ready before the voice is there.
PublishAfterReady(p) ==
  /\ Move(p, "publish", "done")
  /\ SaveCopy(p, [copy[p] EXCEPT !.stage = "ready"])
  /\ WorkerRest /\ UNCHANGED <<runtime, voice, events>>

PublishVoice(p) ==
  /\ Move(p, "publish", "done") /\ voice' = TRUE
  /\ WorkerRest /\ UNCHANGED <<runtime, disk, copy, events>>

\* Mutant: a stage the record's reader does not know.
DoneCompleted(p) ==
  /\ Move(p, "done", "exit") /\ SaveCopy(p, [copy[p] EXCEPT !.stage = "completed", !.pid = NoPid])
  /\ WorkerRest /\ UNCHANGED <<runtime, voice, events>>

Done(p) ==
  /\ Move(p, "done", "exit") /\ SaveCopy(p, [copy[p] EXCEPT !.stage = "ready", !.pid = NoPid])
  /\ WorkerRest /\ UNCHANGED <<runtime, voice, events>>

WorkerFails(p) ==
  /\ trainer[p] \in Ensures \cup Trains \cup {"clear", "publish"} /\ Happens("workerFails")
  /\ trainer' = [trainer EXCEPT ![p] = "exit"]
  /\ SaveCopy(p, [copy[p] EXCEPT !.stage = "failed", !.pid = NoPid])
  /\ WorkerRest /\ UNCHANGED <<runtime, voice>>

Exit(p) ==
  /\ Move(p, "exit", "gone") /\ Forget({p})
  /\ WorkerRest /\ UNCHANGED <<runtime, disk, voice, events>>

WorkerDies(p) ==
  /\ trainer[p] # "gone" /\ Happens("workerDies")
  /\ trainer' = [trainer EXCEPT ![p] = "gone"] /\ Forget({p})
  /\ WorkerRest /\ UNCHANGED <<runtime, disk, voice>>

Work(p) ==
  \/ Boot(p) \/ Hello(p)
  \/ EnsureSource(p) \/ InstallClears(p) \/ InstallPlaces(p) \/ EnsureModels(p) \/ EnsureConfig(p) \/ ConfigCopied(p)
  \/ BeginTraining(p) \/ Epoch(p) \/ NextPhase(p) \/ Finalizing(p)
  \/ ClearVoice(p) \/ PublishVoice(p) \/ Done(p) \/ Exit(p)

-----------------------------------------------------------------------------
(* The machine *)

EngineGone == req' = "idle" /\ mem' = Unmade /\ Shut

PowerLoss ==
  /\ Happens("powerLoss") /\ EngineGone
  /\ trainer' = [p \in Pids |-> "gone"] /\ Forget(Pids) /\ others' = {}
  /\ UNCHANGED <<disk, files, voice>>

\* A fault of its own: it dies before it saves whom it has started.
EngineDies ==
  /\ req # "idle" /\ EngineGone
  /\ Happens(IF req = "startSave" THEN "dieUnrecorded" ELSE "engineDies")
  /\ UNCHANGED <<disk, files, voice, workers, others>>

\* The operating system gives a free process id to another program.
PidReused(p) ==
  /\ ~Exists(p) /\ Happens("pidReused")
  /\ others' = others \cup {p}
  /\ UNCHANGED <<disk, files, voice, req, mem, wizard, workers>>

Coordinate ==
  \/ Inspect \/ Build \/ Swap \/ Gate \/ Popen \/ StartSave \/ Kill \/ PauseSave \/ StatusCheck
Ask     == Create \/ Prepare \/ Start \/ Pause \/ Status
Disturb == BuildFails \/ PopenFails \/ PowerLoss \/ EngineDies

Next ==
  \/ Open \/ Close \/ CloseWindow \/ Ask \/ Coordinate \/ Disturb
  \/ \E p \in Pids : Work(p) \/ WorkerFails(p) \/ WorkerDies(p) \/ PidReused(p)

Spec == Init /\ [][Next]_vars

\* The engine answers; the user comes back to the wizard, whose timer polls.
Polling   == WF_vars(Coordinate) /\ WF_vars(Open) /\ SF_vars(Status)
PolledSpec == Spec /\ Polling

-----------------------------------------------------------------------------
(***************************************************************************)
(* Two workers never train one session: they would write one experiment    *)
(* directory and one record (the check of worker_pid in start).            *)
(***************************************************************************)
OneTrainer == Cardinality({p \in Live : trainer[p] # "exit"}) <= 1

(***************************************************************************)
(* A record that says paused means that nothing trains (pause kills before *)
(* it saves, and no later save of the worker undoes it).                   *)
(***************************************************************************)
PausedIsStopped == disk.stage = "paused" => \A p \in Live : trainer[p] = "exit"

(***************************************************************************)
(* What trains is what the record says: at most one worker, and none under *)
(* a record that says paused, wherever the engine, the worker or the       *)
(* machine stopped in between.                                             *)
(***************************************************************************)
TrainerFollowsRecord == OneTrainer /\ PausedIsStopped

(***************************************************************************)
(* What a worker trains on has passed the speaker-consistency gate         *)
(* (prepare), although start itself only checks that a dataset is there;   *)
(* its segments are cut from the recordings with nothing sung twice or     *)
(* lost but a short end; and the programs it runs are whole, wherever an   *)
(* earlier installation of them stopped (runtime.py).                      *)
(***************************************************************************)
TrainsOnPassed ==
  \A p \in Pids :
    /\ trainer[p] \in {"boot", "hello"} \cup Ensures \cup Trains =>
         dataset \in Passed \cap Cleanly
    /\ trainer[p] \in Trains => runtime.source /\ runtime.models

(***************************************************************************)
(* A record that says ready means that the voice is in the library, power  *)
(* losses between the two steps included (run of the worker).              *)
(***************************************************************************)
ReadyMeansVoice == disk.stage = "ready" => voice

(***************************************************************************)
(* A worker that died while training is noticed: status turns the record   *)
(* to paused, from where the training can be resumed - unless an unrelated *)
(* program has got the process id by then.                                 *)
(***************************************************************************)
DeadWorkerNoticed ==
  (disk.stage = "training" /\ disk.pid # NoPid /\ disk.pid \notin Live)
     ~> (disk.stage # "training" \/ disk.pid \in Live \cup others)

=============================================================================
