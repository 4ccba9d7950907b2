------------------------- MODULE TrainingSessionProofs -------------------------
(***************************************************************************)
(* What holds of a training session in every state, for any recordings,    *)
(* any process ids, any faults but one and any number of them.  The fault  *)
(* left out is the engine dying between the start of a worker and the save *)
(* of its process id: nobody knows of that worker then.  And what holds of *)
(* the segments a model is trained on, whatever is sung in the recordings. *)
(***************************************************************************)
EXTENDS TrainingSession, FiniteSetTheorems, WellFoundedInduction, TLAPS

\* A worker that may still write: its record, its experiment, the library.
Alive(p) == trainer[p] \notin {"gone", "exit"}
\* Stages a record has once a training was started.
Trained   == {"training", "paused", "failed", "finalizing", "ready"}
Underway  == {"training", "finalizing"}

\* What the wizard's page tells of the record on disk.
PageTells ==
  /\ page = "recordings" => disk.stage \in {"none", "recordings"}
  /\ page = "quality"    => disk.stage = "quality"
  /\ page = "cleaning" /\ begin  => disk.stage \in {"cleaning"} \cup Trained
  /\ page = "cleaning" /\ ~begin => disk.stage \in {"quality", "cleaning"}
  /\ page \in {"training", "ready"} => disk.stage \in Trained
  /\ begin => page \in {"cleaning", "training", "ready"}

\* What the coordinator knows of the record while it serves a request.
RequestKnows ==
  /\ req = "inspect" => page = "recordings" /\ disk.stage = "recordings"
  /\ req \in {"build", "swap", "gate"} =>
       page = "cleaning" /\ ~begin /\ disk.stage = "cleaning" /\ mem \in Record /\ mem.stage = "cleaning"
  /\ req \in {"popen", "startSave"} =>
       page \in {"cleaning", "training"} /\ disk.stage \in Trained /\ mem \in Record /\ mem.stage = "training"
  /\ req = "popen" => disk.stage = "training"
  /\ req \in {"kill", "pauseSave", "statusCheck"} =>
       page = "training" /\ disk.stage \in Trained /\ mem \in Record /\ mem.stage \in Trained

\* An active worker is the one on record, or the one about to be recorded; its
\* own copy says so; and the coordinator's copy does when it acts upon it.
Owner == IF req = "startSave" THEN mem.pid ELSE disk.pid
WorkerKnown(p) ==
  Alive(p) =>
    /\ p = Owner
    /\ disk.stage \in Underway
    /\ trainer[p] # "boot" => copy[p] \in Record /\ copy[p].pid = p /\ copy[p].stage \in Underway
    /\ req \notin {"popen", "pauseSave"}
    /\ req \in {"kill", "statusCheck"} => mem.pid = p

\* What a training has at its disposal, and what it leaves.
MaterialKnown ==
  /\ disk.stage = "none" => material = Absent /\ dataset = Absent
  /\ disk.stage \in Trained \/ begin => dataset \in Passed
  /\ disk.stage = "ready" => voice
ProgramsKnown(p) ==
  /\ trainer[p] = "models" => runtime.source
  /\ trainer[p] \in {"config", "copying", "begin"} \cup Trains => runtime.source /\ runtime.models
  /\ trainer[p] = "done" => voice

IInv ==
  /\ TypeOK /\ PageTells /\ RequestKnows /\ MaterialKnown
  /\ \A p \in Pids : WorkerKnown(p) /\ ProgramsKnown(p)

-----------------------------------------------------------------------------

\* The fault left out.
Recorded == "dieUnrecorded" \notin Faults

\* What the proofs use of the constants.
LEMMA Constants == "none" \notin Pids /\ Absent \notin Material /\ MaxEvents \in Nat
  BY PidsAssumption, MaterialAssumption, FaultsAssumption DEF Material, Absent

\* A record rewritten is a record.
LEMMA Rewritten ==
  ASSUME NEW r \in Record, NEW st \in SessionStage
  PROVE  /\ \A q \in {"pass", "fail"} : [r EXCEPT !.stage = st, !.quality = q] \in Record
         /\ [r EXCEPT !.stage = st, !.pid = NoPid] \in Record
         /\ [r EXCEPT !.pid = NoPid, !.stage = st] \in Record
         /\ [r EXCEPT !.pid = NoPid, !.stage = st].stage = st
  BY DEF Record

\* The wizard opens and closes.
LEMMA WizardSteps ==
  ASSUME Recorded, IInv, Open \/ Close \/ CloseWindow
  PROVE  IInv'
<1> USE DEF IInv, TypeOK, PageTells, RequestKnows, MaterialKnown, WorkerKnown, ProgramsKnown, Owner, Alive, Underway,
      Trained, PageOf, files, wizard, workers, Record, Unmade, NoPid, SessionStage, Pages, Requests
<1>1. CASE Open
  <2>1. TypeOK'
    BY <1>1, Constants DEF Open
  <2>2. PageTells'
    BY <1>1 DEF Open
  <2>3. RequestKnows'
    BY <1>1 DEF Open
  <2>4. MaterialKnown'
    BY <1>1 DEF Open
  <2>5. ASSUME NEW p \in Pids PROVE WorkerKnown(p)' /\ ProgramsKnown(p)'
    BY <1>1 DEF Open
  <2> QED
    BY <2>1, <2>2, <2>3, <2>4, <2>5
<1>2. CASE Close
  <2>1. TypeOK'
    <3>1. page' \in Pages
      BY <1>2, Constants DEF Close, Shut
    <3>2. shown' \in Record \cup {Unmade}
      BY <1>2, Constants DEF Close, Shut
    <3>3. begin' \in BOOLEAN
      BY <1>2, Constants DEF Close, Shut
    <3>4. UNCHANGED <<disk, material, dataset, runtime, voice, req, mem, trainer, copy, others, events>>
      BY <1>2 DEF Close, Shut
    <3> QED
      BY <3>1, <3>2, <3>3, <3>4
  <2>2. PageTells'
    BY <1>2 DEF Close, Shut
  <2>3. RequestKnows'
    BY <1>2 DEF Close, Shut
  <2>4. MaterialKnown'
    BY <1>2 DEF Close, Shut
  <2>5. ASSUME NEW p \in Pids PROVE WorkerKnown(p)' /\ ProgramsKnown(p)'
    BY <1>2 DEF Close, Shut
  <2> QED
    BY <2>1, <2>2, <2>3, <2>4, <2>5
<1>3. CASE CloseWindow
  <2>1. TypeOK'
    BY <1>3, Constants DEF CloseWindow, Shut
  <2>2. PageTells'
    BY <1>3 DEF CloseWindow, Shut
  <2>3. RequestKnows'
    BY <1>3 DEF CloseWindow, Shut
  <2>4. MaterialKnown'
    BY <1>3 DEF CloseWindow, Shut
  <2>5. ASSUME NEW p \in Pids PROVE WorkerKnown(p)' /\ ProgramsKnown(p)'
    BY <1>3 DEF CloseWindow, Shut
  <2> QED
    BY <2>1, <2>2, <2>3, <2>4, <2>5
<1> QED
  BY <1>1, <1>2, <1>3

\* A record of material that failed is one.
LEMMA FailedRecord == ASSUME NEW r \in Record PROVE [r EXCEPT !.quality = "fail", !.stage = "quality"] \in Record
  BY DEF Record, SessionStage

\* A session is made, and its recordings are inspected, cleaned and checked again.
LEMMA PreparationSteps ==
  ASSUME Recorded, IInv, Create \/ Inspect \/ Prepare \/ Build \/ BuildFails \/ Swap \/ Gate
  PROVE  IInv'
<1> USE DEF IInv, TypeOK, PageTells, RequestKnows, MaterialKnown, WorkerKnown, ProgramsKnown, Owner, Alive, Underway,
      Trained, PageOf, files, wizard, workers, Record, Unmade, NoPid, SessionStage, Pages, Requests
<1>1. CASE Create
  <2>1. TypeOK'
    BY <1>1, Constants DEF Create
  <2>2. PageTells'
    BY <1>1 DEF Create
  <2>3. RequestKnows'
    BY <1>1 DEF Create
  <2>4. MaterialKnown'
    BY <1>1 DEF Create
  <2>5. ASSUME NEW p \in Pids PROVE WorkerKnown(p)' /\ ProgramsKnown(p)'
    BY <1>1 DEF Create
  <2> QED
    BY <2>1, <2>2, <2>3, <2>4, <2>5
<1>2. CASE Inspect
  <2>1. TypeOK'
    <3>1. disk' \in Record \cup {Unmade}
      <4>1. disk \in Record
        BY <1>2 DEF Inspect
      <4> HIDE DEF Record
      <4> QED
        BY <1>2, <4>1, Rewritten DEF Inspect
    <3>2. req' \in Requests
      BY <1>2, Constants DEF Inspect, Answer
    <3>3. mem' \in Record \cup {Unmade}
      BY <1>2, Constants DEF Inspect, Answer
    <3>4. page' \in Pages
      BY <1>2, Constants DEF Inspect, Answer
    <3>5. shown' \in Record \cup {Unmade}
      BY <1>2, <3>1 DEF Inspect, Answer
    <3>6. UNCHANGED <<material, dataset, runtime, voice, begin, trainer, copy, others, events>>
      BY <1>2 DEF Inspect, Answer
    <3> QED
      BY <3>1, <3>2, <3>3, <3>4, <3>5, <3>6
  <2>2. PageTells'
    BY <1>2 DEF Inspect, Answer
  <2>3. RequestKnows'
    BY <1>2 DEF Inspect, Answer
  <2>4. MaterialKnown'
    BY <1>2 DEF Inspect, Answer
  <2>5. ASSUME NEW p \in Pids PROVE WorkerKnown(p)' /\ ProgramsKnown(p)'
    BY <1>2 DEF Inspect, Answer
  <2> QED
    BY <2>1, <2>2, <2>3, <2>4, <2>5
<1>3. CASE Prepare
  <2>1. TypeOK'
    BY <1>3, Constants DEF Prepare
  <2>2. PageTells'
    BY <1>3 DEF Prepare
  <2>3. RequestKnows'
    BY <1>3 DEF Prepare
  <2>4. MaterialKnown'
    BY <1>3 DEF Prepare
  <2>5. ASSUME NEW p \in Pids PROVE WorkerKnown(p)' /\ ProgramsKnown(p)'
    BY <1>3 DEF Prepare
  <2> QED
    BY <2>1, <2>2, <2>3, <2>4, <2>5
<1>4. CASE Build
  <2>1. TypeOK'
    BY <1>4, Constants DEF Build
  <2>2. PageTells'
    BY <1>4 DEF Build
  <2>3. RequestKnows'
    BY <1>4 DEF Build
  <2>4. MaterialKnown'
    BY <1>4 DEF Build
  <2>5. ASSUME NEW p \in Pids PROVE WorkerKnown(p)' /\ ProgramsKnown(p)'
    BY <1>4 DEF Build
  <2> QED
    BY <2>1, <2>2, <2>3, <2>4, <2>5
<1>5. CASE BuildFails
  <2>1. TypeOK'
    BY <1>5, Constants DEF BuildFails, Refuse, Happens
  <2>2. PageTells'
    BY <1>5 DEF BuildFails, Refuse, Happens
  <2>3. RequestKnows'
    BY <1>5 DEF BuildFails, Refuse, Happens
  <2>4. MaterialKnown'
    BY <1>5 DEF BuildFails, Refuse, Happens
  <2>5. ASSUME NEW p \in Pids PROVE WorkerKnown(p)' /\ ProgramsKnown(p)'
    BY <1>5 DEF BuildFails, Refuse, Happens
  <2> QED
    BY <2>1, <2>2, <2>3, <2>4, <2>5
<1>6. CASE Swap
  <2>1. TypeOK'
    BY <1>6, Constants DEF Swap
  <2>2. PageTells'
    BY <1>6 DEF Swap
  <2>3. RequestKnows'
    BY <1>6 DEF Swap
  <2>4. MaterialKnown'
    BY <1>6 DEF Swap
  <2>5. ASSUME NEW p \in Pids PROVE WorkerKnown(p)' /\ ProgramsKnown(p)'
    BY <1>6 DEF Swap
  <2> QED
    BY <2>1, <2>2, <2>3, <2>4, <2>5
<1>7. CASE Gate
  <2>1. TypeOK'
    <3>1. disk' \in Record \cup {Unmade}
      <4>1. mem \in Record
        BY <1>7 DEF Gate
      <4>2. disk' = mem \/ disk' = [mem EXCEPT !.quality = "fail", !.stage = "quality"]
        BY <1>7 DEF Gate
      <4> HIDE DEF IInv, TypeOK, RequestKnows, PageTells, WorkerKnown, ProgramsKnown, MaterialKnown, Record, Unmade
      <4> QED
        BY <4>1, <4>2, FailedRecord
    <3>2. req' \in Requests
      BY <1>7, Constants DEF Gate, Refuse
    <3>3. mem' \in Record \cup {Unmade}
      BY <1>7, Constants DEF Gate, Refuse
    <3>4. page' \in Pages
      BY <1>7, Constants DEF Gate, Refuse
    <3>5. shown' \in Record \cup {Unmade}
      BY <1>7, Constants DEF Gate, Refuse
    <3>6. begin' \in BOOLEAN
      BY <1>7, Constants DEF Gate, Refuse
    <3>7. UNCHANGED <<material, dataset, runtime, voice, trainer, copy, others, events>>
      BY <1>7 DEF Gate, Refuse
    <3> QED
      BY <3>1, <3>2, <3>3, <3>4, <3>5, <3>6, <3>7
  <2>2. PageTells'
    BY <1>7 DEF Gate, Refuse
  <2>3. RequestKnows'
    BY <1>7 DEF Gate, Refuse
  <2>4. MaterialKnown'
    BY <1>7 DEF Gate, Refuse
  <2>5. ASSUME NEW p \in Pids PROVE WorkerKnown(p)' /\ ProgramsKnown(p)'
    BY <1>7 DEF Gate, Refuse
  <2> QED
    BY <2>1, <2>2, <2>3, <2>4, <2>5
<1> QED
  BY <1>1, <1>2, <1>3, <1>4, <1>5, <1>6, <1>7

\* A worker is started: it is the only one, since the one on record is gone.
LEMMA StartSteps ==
  ASSUME Recorded, IInv, Start \/ Popen \/ PopenFails \/ StartSave
  PROVE  IInv'
<1> USE DEF IInv, TypeOK, PageTells, RequestKnows, MaterialKnown, WorkerKnown, ProgramsKnown, Owner, Alive, Underway,
      Trained, PageOf, files, wizard, workers, Record, Unmade, NoPid, SessionStage, Pages, Requests
<1>1. CASE Start
  <2>1. TypeOK'
    BY <1>1, Constants DEF Start, StartOffered, Refuse, Answer
  <2>2. PageTells'
    BY <1>1 DEF Start, StartOffered, Refuse, Answer
  <2>3. RequestKnows'
    BY <1>1 DEF Start, StartOffered, Refuse, Answer
  <2>4. MaterialKnown'
    BY <1>1 DEF Start, StartOffered, Refuse, Answer
  <2>5. ASSUME NEW p \in Pids PROVE WorkerKnown(p)' /\ ProgramsKnown(p)'
    <3>1. CASE dataset # Absent /\ Exists(disk.pid)
      BY <1>1, <3>1 DEF Start, StartOffered, Answer
    <3>2. CASE dataset = Absent
      BY <1>1, <3>2 DEF Start, StartOffered, Refuse
    <3>3. CASE dataset # Absent /\ ~Exists(disk.pid)
      <4>1. ~Alive(p)
        BY <1>1, <3>3 DEF Start, Exists, Live
      <4> QED
        BY <1>1, <3>3, <4>1 DEF Start
    <3> QED
      BY <3>1, <3>2, <3>3
  <2> QED
    BY <2>1, <2>2, <2>3, <2>4, <2>5
<1>2. CASE Popen
  <2>1. TypeOK'
    <3>1. trainer' \in [Pids -> Posts]
      BY <1>2, Constants DEF Popen, Posts
    <3>2. mem' \in Record \cup {Unmade}
      BY <1>2, Constants DEF Popen
    <3>3. req' \in Requests
      BY <1>2, Constants DEF Popen
    <3>4. UNCHANGED <<disk, material, dataset, runtime, voice, page, shown, begin, copy, others, events>>
      BY <1>2 DEF Popen
    <3> QED
      BY <3>1, <3>2, <3>3, <3>4
  <2>2. PageTells'
    BY <1>2 DEF Popen
  <2>3. RequestKnows'
    BY <1>2 DEF Popen
  <2>4. MaterialKnown'
    BY <1>2 DEF Popen
  <2>5. ASSUME NEW p \in Pids PROVE WorkerKnown(p)' /\ ProgramsKnown(p)'
    <3>1. PICK q \in Pids : /\ trainer' = [trainer EXCEPT ![q] = "boot"]
                            /\ mem' = [mem EXCEPT !.pid = q]
      BY <1>2 DEF Popen
    <3>2. ~Alive(p)
      BY <1>2 DEF Popen
    <3>3. trainer'[p] = IF p = q THEN "boot" ELSE trainer[p]
      BY <3>1
    <3>4. mem'.pid = q
      BY <1>2, <3>1 DEF Popen
    <3>5. req' = "startSave" /\ UNCHANGED <<disk, runtime, voice, copy>>
      BY <1>2 DEF Popen
    <3>6. disk.stage \in Underway
      BY <1>2 DEF Popen
    <3> QED
      BY <3>2, <3>3, <3>4, <3>5, <3>6 DEF Trains
  <2> QED
    BY <2>1, <2>2, <2>3, <2>4, <2>5
<1>3. CASE PopenFails
  <2>1. TypeOK'
    BY <1>3, Constants DEF PopenFails, Refuse, Happens
  <2>2. PageTells'
    BY <1>3 DEF PopenFails, Refuse, Happens
  <2>3. RequestKnows'
    BY <1>3 DEF PopenFails, Refuse, Happens
  <2>4. MaterialKnown'
    BY <1>3 DEF PopenFails, Refuse, Happens
  <2>5. ASSUME NEW p \in Pids PROVE WorkerKnown(p)' /\ ProgramsKnown(p)'
    BY <1>3 DEF PopenFails, Refuse, Happens
  <2> QED
    BY <2>1, <2>2, <2>3, <2>4, <2>5
<1>4. CASE StartSave
  <2>1. TypeOK'
    BY <1>4, Constants DEF StartSave, Answer
  <2>2. PageTells'
    BY <1>4 DEF StartSave, Answer
  <2>3. RequestKnows'
    BY <1>4 DEF StartSave, Answer
  <2>4. MaterialKnown'
    BY <1>4 DEF StartSave, Answer
  <2>5. ASSUME NEW p \in Pids PROVE WorkerKnown(p)' /\ ProgramsKnown(p)'
    BY <1>4 DEF StartSave, Answer
  <2> QED
    BY <2>1, <2>2, <2>3, <2>4, <2>5
<1> QED
  BY <1>1, <1>2, <1>3, <1>4

\* A worker is killed, or found dead, before the record says so.
LEMMA PauseSteps ==
  ASSUME Recorded, IInv, Pause \/ Kill \/ PauseSave \/ Status \/ StatusCheck
  PROVE  IInv'
<1> USE DEF IInv, TypeOK, PageTells, RequestKnows, MaterialKnown, WorkerKnown, ProgramsKnown, Owner, Alive, Underway,
      Trained, PageOf, files, wizard, workers, Record, Unmade, NoPid, SessionStage, Pages, Requests
<1>1. CASE Pause
  <2>1. TypeOK'
    BY <1>1, Constants DEF Pause, Load
  <2>2. PageTells'
    BY <1>1 DEF Pause, Load
  <2>3. RequestKnows'
    BY <1>1 DEF Pause, Load
  <2>4. MaterialKnown'
    BY <1>1 DEF Pause, Load
  <2>5. ASSUME NEW p \in Pids PROVE WorkerKnown(p)' /\ ProgramsKnown(p)'
    BY <1>1 DEF Pause, Load
  <2> QED
    BY <2>1, <2>2, <2>3, <2>4, <2>5
<1>2. CASE Kill
  <2>1. TypeOK'
    <3>1. trainer' \in [Pids -> Posts]
      BY <1>2, Constants DEF Kill, Forget, Posts
    <3>2. copy' \in [Pids -> Record \cup {Unmade}]
      BY <1>2, Constants DEF Kill, Forget
    <3>3. others' \in SUBSET Pids
      BY <1>2, Constants DEF Kill, Forget
    <3>4. req' \in Requests
      BY <1>2, Constants DEF Kill, Forget
    <3>5. UNCHANGED <<disk, material, dataset, runtime, voice, mem, page, shown, begin, events>>
      BY <1>2 DEF Kill, Forget
    <3> QED
      BY <3>1, <3>2, <3>3, <3>4, <3>5
  <2>2. PageTells'
    BY <1>2 DEF Kill, Forget
  <2>3. RequestKnows'
    BY <1>2 DEF Kill, Forget
  <2>4. MaterialKnown'
    BY <1>2 DEF Kill, Forget
  <2>5. ASSUME NEW p \in Pids PROVE WorkerKnown(p)' /\ ProgramsKnown(p)'
    <3>1. trainer'[p] = (IF p = mem.pid THEN "gone" ELSE trainer[p]) /\ UNCHANGED <<disk, runtime, voice>>
      BY <1>2 DEF Kill
    <3>2. ~Alive(p)'
      BY <1>2, <3>1 DEF Kill
    <3> QED
      BY <3>1, <3>2 DEF Trains
  <2> QED
    BY <2>1, <2>2, <2>3, <2>4, <2>5
<1>3. CASE PauseSave
  <2>1. TypeOK'
    BY <1>3, Constants DEF PauseSave, Answer
  <2>2. PageTells'
    BY <1>3 DEF PauseSave, Answer
  <2>3. RequestKnows'
    BY <1>3 DEF PauseSave, Answer
  <2>4. MaterialKnown'
    BY <1>3 DEF PauseSave, Answer
  <2>5. ASSUME NEW p \in Pids PROVE WorkerKnown(p)' /\ ProgramsKnown(p)'
    BY <1>3 DEF PauseSave, Answer
  <2> QED
    BY <2>1, <2>2, <2>3, <2>4, <2>5
<1>4. CASE Status
  <2>1. TypeOK'
    BY <1>4, Constants DEF Status, Load
  <2>2. PageTells'
    BY <1>4 DEF Status, Load
  <2>3. RequestKnows'
    BY <1>4 DEF Status, Load
  <2>4. MaterialKnown'
    BY <1>4 DEF Status, Load
  <2>5. ASSUME NEW p \in Pids PROVE WorkerKnown(p)' /\ ProgramsKnown(p)'
    BY <1>4 DEF Status, Load
  <2> QED
    BY <2>1, <2>2, <2>3, <2>4, <2>5
<1>5. CASE StatusCheck
  <2>1. TypeOK'
    <3>1. disk' \in Record \cup {Unmade}
      <4>0. disk \in Record \cup {Unmade}
        OBVIOUS
      <4>1. mem \in Record
        BY <1>5 DEF StatusCheck
      <4>2. disk' \in {disk, [mem EXCEPT !.pid = NoPid, !.stage = "paused"]}
        BY <1>5 DEF StatusCheck, Answer
      <4> HIDE DEF Record, Unmade, NoPid, IInv
      <4>3. [mem EXCEPT !.pid = NoPid, !.stage = "paused"] \in Record
        BY <4>1, Rewritten
      <4> QED
        BY <4>0, <4>1, <4>2, <4>3
    <3>2. req' \in Requests
      BY <1>5, Constants DEF StatusCheck, Answer
    <3>3. mem' \in Record \cup {Unmade}
      BY <1>5, Constants DEF StatusCheck, Answer
    <3>4. page' \in Pages
      <4>1. mem.stage \in Trained
        BY <1>5 DEF StatusCheck
      <4>2. page' = PageOf(mem) \/ page' = PageOf([mem EXCEPT !.pid = NoPid, !.stage = "paused"])
        BY <1>5 DEF StatusCheck, Answer
      <4>3. PageOf(mem) \in Pages
        BY <4>1
      <4>4. mem \in Record
        BY <1>5 DEF StatusCheck
      <4> HIDE DEF Record, Unmade, NoPid, IInv
      <4>5. [mem EXCEPT !.pid = NoPid, !.stage = "paused"].stage = "paused"
        BY <4>4, Rewritten
      <4>6. PageOf([mem EXCEPT !.pid = NoPid, !.stage = "paused"]) = "training"
        BY <4>5
      <4> QED
        BY <4>2, <4>3, <4>6
    <3>5. shown' \in Record \cup {Unmade}
      <4>0. disk \in Record \cup {Unmade}
        OBVIOUS
      <4>1. mem \in Record
        BY <1>5 DEF StatusCheck
      <4>2. shown' \in {mem, [mem EXCEPT !.pid = NoPid, !.stage = "paused"]}
        BY <1>5 DEF StatusCheck, Answer
      <4> HIDE DEF Record, Unmade, NoPid, IInv
      <4>3. [mem EXCEPT !.pid = NoPid, !.stage = "paused"] \in Record
        BY <4>1, Rewritten
      <4> QED
        BY <4>0, <4>1, <4>2, <4>3
    <3>6. UNCHANGED <<material, dataset, runtime, voice, begin, trainer, copy, others, events>>
      BY <1>5 DEF StatusCheck, Answer
    <3> QED
      BY <3>1, <3>2, <3>3, <3>4, <3>5, <3>6
  <2>2. PageTells'
    <3>1. CASE mem.pid # NoPid /\ ~Exists(mem.pid) /\ mem.stage = "training"
      <4>1. disk' = [mem EXCEPT !.pid = NoPid, !.stage = "paused"] /\ page' = PageOf(disk') /\ UNCHANGED <<begin, files, voice>>
        BY <1>5, <3>1 DEF StatusCheck, Answer
      <4>2. disk'.stage = "paused" /\ disk.stage \in Trained
        BY <1>5, <4>1 DEF StatusCheck
      <4> QED
        BY <4>1, <4>2
    <3>2. CASE ~(mem.pid # NoPid /\ ~Exists(mem.pid) /\ mem.stage = "training")
      BY <1>5, <3>2 DEF StatusCheck, Answer
    <3> QED
      BY <3>1, <3>2
  <2>3. RequestKnows'
    BY <1>5 DEF StatusCheck, Answer
  <2>4. MaterialKnown'
    <3>1. CASE mem.pid # NoPid /\ ~Exists(mem.pid) /\ mem.stage = "training"
      <4>1. disk' = [mem EXCEPT !.pid = NoPid, !.stage = "paused"] /\ page' = PageOf(disk') /\ UNCHANGED <<begin, files, voice>>
        BY <1>5, <3>1 DEF StatusCheck, Answer
      <4>2. disk'.stage = "paused" /\ disk.stage \in Trained
        BY <1>5, <4>1 DEF StatusCheck
      <4> QED
        BY <4>1, <4>2
    <3>2. CASE ~(mem.pid # NoPid /\ ~Exists(mem.pid) /\ mem.stage = "training")
      BY <1>5, <3>2 DEF StatusCheck, Answer
    <3> QED
      BY <3>1, <3>2
  <2>5. ASSUME NEW p \in Pids PROVE WorkerKnown(p)' /\ ProgramsKnown(p)'
    <3>1. CASE mem.pid # NoPid /\ ~Exists(mem.pid) /\ mem.stage = "training"
      <4>1. ~Alive(p)
        BY <1>5, <3>1 DEF StatusCheck, Exists, Live
      <4> QED
        BY <1>5, <4>1 DEF StatusCheck
    <3>2. CASE ~(mem.pid # NoPid /\ ~Exists(mem.pid) /\ mem.stage = "training")
      BY <1>5, <3>2 DEF StatusCheck, Answer
    <3> QED
      BY <3>1, <3>2
  <2> QED
    BY <2>1, <2>2, <2>3, <2>4, <2>5
<1> QED
  BY <1>1, <1>2, <1>3, <1>4, <1>5

\* The engine dies, or the power fails.
LEMMA MachineSteps ==
  ASSUME Recorded, IInv, PowerLoss \/ EngineDies
  PROVE  IInv'
<1> USE DEF IInv, TypeOK, PageTells, RequestKnows, MaterialKnown, WorkerKnown, ProgramsKnown, Owner, Alive, Underway,
      Trained, PageOf, files, wizard, workers, Record, Unmade, NoPid, SessionStage, Pages, Requests
<1>1. CASE PowerLoss
  <2>1. TypeOK'
    <3>1. req' \in Requests
      BY <1>1, Constants DEF PowerLoss, EngineGone, Shut, Forget, Happens
    <3>2. mem' \in Record \cup {Unmade}
      BY <1>1, Constants DEF PowerLoss, EngineGone, Shut, Forget, Happens
    <3>3. page' \in Pages
      BY <1>1, Constants DEF PowerLoss, EngineGone, Shut, Forget, Happens
    <3>4. shown' \in Record \cup {Unmade}
      BY <1>1, Constants DEF PowerLoss, EngineGone, Shut, Forget, Happens
    <3>5. begin' \in BOOLEAN
      BY <1>1, Constants DEF PowerLoss, EngineGone, Shut, Forget, Happens
    <3>6. trainer' \in [Pids -> Posts]
      BY <1>1, Constants DEF PowerLoss, EngineGone, Shut, Forget, Happens, Posts
    <3>7. copy' \in [Pids -> Record \cup {Unmade}]
      BY <1>1, Constants DEF PowerLoss, EngineGone, Shut, Forget, Happens
    <3>8. others' \in SUBSET Pids
      BY <1>1, Constants DEF PowerLoss, EngineGone, Shut, Forget, Happens
    <3>9. events' \in 0..MaxEvents
      BY <1>1, Constants DEF PowerLoss, EngineGone, Shut, Forget, Happens
    <3>10. UNCHANGED <<disk, material, dataset, runtime, voice>>
      BY <1>1 DEF PowerLoss, EngineGone, Shut, Forget, Happens
    <3> QED
      BY <3>1, <3>2, <3>3, <3>4, <3>5, <3>6, <3>7, <3>8, <3>9, <3>10
  <2>2. PageTells'
    BY <1>1 DEF PowerLoss, EngineGone, Shut, Forget, Happens
  <2>3. RequestKnows'
    BY <1>1 DEF PowerLoss, EngineGone, Shut, Forget, Happens
  <2>4. MaterialKnown'
    BY <1>1 DEF PowerLoss, EngineGone, Shut, Forget, Happens
  <2>5. ASSUME NEW p \in Pids PROVE WorkerKnown(p)' /\ ProgramsKnown(p)'
    <3>1. trainer'[p] = "gone"
      BY <1>1 DEF PowerLoss
    <3> QED
      BY <3>1 DEF Trains
  <2> QED
    BY <2>1, <2>2, <2>3, <2>4, <2>5
<1>2. CASE EngineDies
  <2>1. TypeOK'
    <3>1. req' \in Requests
      BY <1>2, Constants DEF EngineDies, EngineGone, Shut, Happens
    <3>2. mem' \in Record \cup {Unmade}
      BY <1>2, Constants DEF EngineDies, EngineGone, Shut, Happens
    <3>3. page' \in Pages
      BY <1>2, Constants DEF EngineDies, EngineGone, Shut, Happens
    <3>4. shown' \in Record \cup {Unmade}
      BY <1>2, Constants DEF EngineDies, EngineGone, Shut, Happens
    <3>5. begin' \in BOOLEAN
      BY <1>2, Constants DEF EngineDies, EngineGone, Shut, Happens
    <3>6. events' \in 0..MaxEvents
      BY <1>2, Constants DEF EngineDies, EngineGone, Shut, Happens
    <3>7. UNCHANGED <<disk, material, dataset, runtime, voice, trainer, copy, others>>
      BY <1>2 DEF EngineDies, EngineGone, Shut, Happens
    <3> QED
      BY <3>1, <3>2, <3>3, <3>4, <3>5, <3>6, <3>7
  <2>2. PageTells'
    BY <1>2 DEF EngineDies, EngineGone, Shut, Happens
  <2>3. RequestKnows'
    BY <1>2 DEF EngineDies, EngineGone, Shut, Happens
  <2>4. MaterialKnown'
    BY <1>2 DEF EngineDies, EngineGone, Shut, Happens
  <2>5. ASSUME NEW p \in Pids PROVE WorkerKnown(p)' /\ ProgramsKnown(p)'
    <3>1. req # "startSave" /\ req' = "idle" /\ UNCHANGED <<disk, runtime, voice, trainer, copy>>
      BY <1>2 DEF EngineDies, EngineGone, Happens, Recorded
    <3> QED
      BY <3>1
  <2> QED
    BY <2>1, <2>2, <2>3, <2>4, <2>5
<1> QED
  BY <1>1, <1>2

\* A worker installs the programs.
LEMMA ProgramSteps ==
  ASSUME Recorded, IInv, NEW q \in Pids, Boot(q) \/ Hello(q) \/ EnsureSource(q) \/ InstallClears(q) \/
      InstallPlaces(q) \/ EnsureModels(q) \/ EnsureConfig(q) \/ ConfigCopied(q)
  PROVE  IInv'
<1> USE DEF IInv, TypeOK, PageTells, RequestKnows, MaterialKnown, WorkerKnown, ProgramsKnown, Owner, Alive, Underway,
      Trained, PageOf, files, wizard, workers, Record, Unmade, NoPid, SessionStage, Pages, Requests,
      Move, SaveCopy, WorkerRest, Posts, Ensures, Trains, Programs
<1>1. CASE Boot(q)
  <2>1. TypeOK'
    BY <1>1, Constants DEF Boot
  <2>2. PageTells'
    BY <1>1 DEF Boot
  <2>3. RequestKnows'
    BY <1>1 DEF Boot
  <2>4. MaterialKnown'
    BY <1>1 DEF Boot
  <2>5. ASSUME NEW p \in Pids PROVE WorkerKnown(p)'
    BY <1>1 DEF Boot
  <2>6. ASSUME NEW p \in Pids PROVE ProgramsKnown(p)'
    BY <1>1 DEF Boot
  <2> QED
    BY <2>1, <2>2, <2>3, <2>4, <2>5, <2>6
<1>2. CASE Hello(q)
  <2>1. TypeOK'
    BY <1>2, Constants DEF Hello
  <2>2. PageTells'
    BY <1>2 DEF Hello
  <2>3. RequestKnows'
    BY <1>2 DEF Hello
  <2>4. MaterialKnown'
    BY <1>2 DEF Hello
  <2>5. ASSUME NEW p \in Pids PROVE WorkerKnown(p)'
    BY <1>2 DEF Hello
  <2>6. ASSUME NEW p \in Pids PROVE ProgramsKnown(p)'
    BY <1>2 DEF Hello
  <2> QED
    BY <2>1, <2>2, <2>3, <2>4, <2>5, <2>6
<1>3. CASE EnsureSource(q)
  <2>1. TypeOK'
    BY <1>3, Constants DEF EnsureSource
  <2>2. PageTells'
    BY <1>3 DEF EnsureSource
  <2>3. RequestKnows'
    BY <1>3 DEF EnsureSource
  <2>4. MaterialKnown'
    BY <1>3 DEF EnsureSource
  <2>5. ASSUME NEW p \in Pids PROVE WorkerKnown(p)'
    BY <1>3 DEF EnsureSource
  <2>6. ASSUME NEW p \in Pids PROVE ProgramsKnown(p)'
    BY <1>3 DEF EnsureSource
  <2> QED
    BY <2>1, <2>2, <2>3, <2>4, <2>5, <2>6
<1>4. CASE InstallClears(q)
  <2>1. TypeOK'
    BY <1>4, Constants DEF InstallClears
  <2>2. PageTells'
    BY <1>4 DEF InstallClears
  <2>3. RequestKnows'
    BY <1>4 DEF InstallClears
  <2>4. MaterialKnown'
    BY <1>4 DEF InstallClears
  <2>5. ASSUME NEW p \in Pids PROVE WorkerKnown(p)'
    BY <1>4 DEF InstallClears
  <2>6. ASSUME NEW p \in Pids PROVE ProgramsKnown(p)'
    BY <1>4 DEF InstallClears
  <2> QED
    BY <2>1, <2>2, <2>3, <2>4, <2>5, <2>6
<1>5. CASE InstallPlaces(q)
  <2>1. TypeOK'
    <3>1. trainer' \in [Pids -> Posts]
      BY <1>5, Constants DEF InstallPlaces, Posts
    <3>2. runtime' \in Programs
      BY <1>5, Constants DEF InstallPlaces
    <3>3. UNCHANGED <<disk, material, dataset, voice, req, mem, page, shown, begin, copy, others, events>>
      BY <1>5 DEF InstallPlaces
    <3> QED
      BY <3>1, <3>2, <3>3
  <2>2. PageTells'
    BY <1>5 DEF InstallPlaces
  <2>3. RequestKnows'
    BY <1>5 DEF InstallPlaces
  <2>4. MaterialKnown'
    BY <1>5 DEF InstallPlaces
  <2>5. ASSUME NEW p \in Pids PROVE WorkerKnown(p)'
    BY <1>5 DEF InstallPlaces
  <2>6. ASSUME NEW p \in Pids PROVE ProgramsKnown(p)'
    BY <1>5 DEF InstallPlaces
  <2> QED
    BY <2>1, <2>2, <2>3, <2>4, <2>5, <2>6
<1>6. CASE EnsureModels(q)
  <2>1. TypeOK'
    <3>1. trainer' \in [Pids -> Posts]
      BY <1>6, Constants DEF EnsureModels, Posts
    <3>2. runtime' \in Programs
      BY <1>6, Constants DEF EnsureModels
    <3>3. UNCHANGED <<disk, material, dataset, voice, req, mem, page, shown, begin, copy, others, events>>
      BY <1>6 DEF EnsureModels
    <3> QED
      BY <3>1, <3>2, <3>3
  <2>2. PageTells'
    BY <1>6 DEF EnsureModels
  <2>3. RequestKnows'
    BY <1>6 DEF EnsureModels
  <2>4. MaterialKnown'
    BY <1>6 DEF EnsureModels
  <2>5. ASSUME NEW p \in Pids PROVE WorkerKnown(p)'
    BY <1>6 DEF EnsureModels
  <2>6. ASSUME NEW p \in Pids PROVE ProgramsKnown(p)'
    BY <1>6 DEF EnsureModels
  <2> QED
    BY <2>1, <2>2, <2>3, <2>4, <2>5, <2>6
<1>7. CASE EnsureConfig(q)
  <2>1. TypeOK'
    BY <1>7, Constants DEF EnsureConfig
  <2>2. PageTells'
    BY <1>7 DEF EnsureConfig
  <2>3. RequestKnows'
    BY <1>7 DEF EnsureConfig
  <2>4. MaterialKnown'
    BY <1>7 DEF EnsureConfig
  <2>5. ASSUME NEW p \in Pids PROVE WorkerKnown(p)'
    BY <1>7 DEF EnsureConfig
  <2>6. ASSUME NEW p \in Pids PROVE ProgramsKnown(p)'
    BY <1>7 DEF EnsureConfig
  <2> QED
    BY <2>1, <2>2, <2>3, <2>4, <2>5, <2>6
<1>8. CASE ConfigCopied(q)
  <2>1. TypeOK'
    BY <1>8, Constants DEF ConfigCopied
  <2>2. PageTells'
    BY <1>8 DEF ConfigCopied
  <2>3. RequestKnows'
    BY <1>8 DEF ConfigCopied
  <2>4. MaterialKnown'
    BY <1>8 DEF ConfigCopied
  <2>5. ASSUME NEW p \in Pids PROVE WorkerKnown(p)'
    BY <1>8 DEF ConfigCopied
  <2>6. ASSUME NEW p \in Pids PROVE ProgramsKnown(p)'
    BY <1>8 DEF ConfigCopied
  <2> QED
    BY <2>1, <2>2, <2>3, <2>4, <2>5, <2>6
<1> QED
  BY <1>1, <1>2, <1>3, <1>4, <1>5, <1>6, <1>7, <1>8

\* A worker trains and publishes the voice.
LEMMA TrainSteps ==
  ASSUME Recorded, IInv, NEW q \in Pids, BeginTraining(q) \/ Epoch(q) \/ NextPhase(q) \/ Finalizing(q) \/
      ClearVoice(q) \/ PublishVoice(q) \/ Done(q)
  PROVE  IInv'
<1> USE DEF IInv, TypeOK, PageTells, RequestKnows, MaterialKnown, WorkerKnown, ProgramsKnown, Owner, Alive, Underway,
      Trained, PageOf, files, wizard, workers, Record, Unmade, NoPid, SessionStage, Pages, Requests,
      Move, SaveCopy, WorkerRest, Posts, Ensures, Trains, Programs
<1>1. CASE BeginTraining(q)
  <2>1. TypeOK'
    BY <1>1, Constants DEF BeginTraining, Phases
  <2>2. PageTells'
    BY <1>1 DEF BeginTraining, Phases
  <2>3. RequestKnows'
    BY <1>1 DEF BeginTraining, Phases
  <2>4. MaterialKnown'
    BY <1>1 DEF BeginTraining, Phases
  <2>5. ASSUME NEW p \in Pids PROVE WorkerKnown(p)'
    BY <1>1 DEF BeginTraining, Phases
  <2>6. ASSUME NEW p \in Pids PROVE ProgramsKnown(p)'
    BY <1>1 DEF BeginTraining, Phases
  <2> QED
    BY <2>1, <2>2, <2>3, <2>4, <2>5, <2>6
<1>2. CASE Epoch(q)
  <2>1. TypeOK'
    BY <1>2, Constants DEF Epoch
  <2>2. PageTells'
    BY <1>2 DEF Epoch
  <2>3. RequestKnows'
    BY <1>2 DEF Epoch
  <2>4. MaterialKnown'
    BY <1>2 DEF Epoch
  <2>5. ASSUME NEW p \in Pids PROVE WorkerKnown(p)'
    BY <1>2 DEF Epoch
  <2>6. ASSUME NEW p \in Pids PROVE ProgramsKnown(p)'
    BY <1>2 DEF Epoch
  <2> QED
    BY <2>1, <2>2, <2>3, <2>4, <2>5, <2>6
<1>3. CASE NextPhase(q)
  <2>1. TypeOK'
    BY <1>3, Constants DEF NextPhase, Phases
  <2>2. PageTells'
    BY <1>3 DEF NextPhase, Phases
  <2>3. RequestKnows'
    BY <1>3 DEF NextPhase, Phases
  <2>4. MaterialKnown'
    BY <1>3 DEF NextPhase, Phases
  <2>5. ASSUME NEW p \in Pids PROVE WorkerKnown(p)'
    BY <1>3 DEF NextPhase, Phases
  <2>6. ASSUME NEW p \in Pids PROVE ProgramsKnown(p)'
    BY <1>3 DEF NextPhase, Phases
  <2> QED
    BY <2>1, <2>2, <2>3, <2>4, <2>5, <2>6
<1>4. CASE Finalizing(q)
  <2>1. TypeOK'
    BY <1>4, Constants DEF Finalizing, Phases
  <2>2. PageTells'
    BY <1>4 DEF Finalizing, Phases
  <2>3. RequestKnows'
    BY <1>4 DEF Finalizing, Phases
  <2>4. MaterialKnown'
    BY <1>4 DEF Finalizing, Phases
  <2>5. ASSUME NEW p \in Pids PROVE WorkerKnown(p)'
    BY <1>4 DEF Finalizing, Phases
  <2>6. ASSUME NEW p \in Pids PROVE ProgramsKnown(p)'
    BY <1>4 DEF Finalizing, Phases
  <2> QED
    BY <2>1, <2>2, <2>3, <2>4, <2>5, <2>6
<1>5. CASE ClearVoice(q)
  <2>1. TypeOK'
    <3>1. trainer' \in [Pids -> Posts]
      BY <1>5, Constants DEF ClearVoice, Posts
    <3>2. voice' \in BOOLEAN
      BY <1>5, Constants DEF ClearVoice
    <3>3. UNCHANGED <<disk, material, dataset, runtime, req, mem, page, shown, begin, copy, others, events>>
      BY <1>5 DEF ClearVoice
    <3> QED
      BY <3>1, <3>2, <3>3
  <2>2. PageTells'
    BY <1>5 DEF ClearVoice
  <2>3. RequestKnows'
    BY <1>5 DEF ClearVoice
  <2>4. MaterialKnown'
    BY <1>5 DEF ClearVoice
  <2>5. ASSUME NEW p \in Pids PROVE WorkerKnown(p)'
    BY <1>5 DEF ClearVoice
  <2>6. ASSUME NEW p \in Pids PROVE ProgramsKnown(p)'
    BY <1>5 DEF ClearVoice
  <2> QED
    BY <2>1, <2>2, <2>3, <2>4, <2>5, <2>6
<1>6. CASE PublishVoice(q)
  <2>1. TypeOK'
    BY <1>6, Constants DEF PublishVoice
  <2>2. PageTells'
    BY <1>6 DEF PublishVoice
  <2>3. RequestKnows'
    BY <1>6 DEF PublishVoice
  <2>4. MaterialKnown'
    BY <1>6 DEF PublishVoice
  <2>5. ASSUME NEW p \in Pids PROVE WorkerKnown(p)'
    BY <1>6 DEF PublishVoice
  <2>6. ASSUME NEW p \in Pids PROVE ProgramsKnown(p)'
    BY <1>6 DEF PublishVoice
  <2> QED
    BY <2>1, <2>2, <2>3, <2>4, <2>5, <2>6
<1>7. CASE Done(q)
  <2>1. TypeOK'
    <3>1. trainer' \in [Pids -> Posts]
      BY <1>7, Constants DEF Done, Posts
    <3>2. copy' \in [Pids -> Record \cup {Unmade}]
      <4>0. copy \in [Pids -> Record \cup {Unmade}]
        OBVIOUS
      <4>1. copy[q] \in Record
        BY <1>7 DEF Done
      <4>2. \E st \in SessionStage : copy' = [copy EXCEPT ![q] = [copy[q] EXCEPT !.stage = st, !.pid = NoPid]]
        BY <1>7 DEF Done
      <4> HIDE DEF Record, Unmade, NoPid, IInv
      <4>3. \A st \in SessionStage : [copy[q] EXCEPT !.stage = st, !.pid = NoPid] \in Record
        BY <4>1, Rewritten
      <4> QED
        BY <4>0, <4>2, <4>3
    <3>3. disk' \in Record \cup {Unmade}
      <4>1. copy[q] \in Record
        BY <1>7 DEF Done
      <4> HIDE DEF Record
      <4> QED
        BY <1>7, <4>1, Rewritten DEF Done
    <3>4. UNCHANGED <<material, dataset, runtime, voice, req, mem, page, shown, begin, others, events>>
      BY <1>7 DEF Done
    <3> QED
      BY <3>1, <3>2, <3>3, <3>4
  <2>2. PageTells'
    BY <1>7 DEF Done
  <2>3. RequestKnows'
    BY <1>7 DEF Done
  <2>4. MaterialKnown'
    BY <1>7 DEF Done
  <2>5. ASSUME NEW p \in Pids PROVE WorkerKnown(p)'
    BY <1>7 DEF Done
  <2>6. ASSUME NEW p \in Pids PROVE ProgramsKnown(p)'
    BY <1>7 DEF Done
  <2> QED
    BY <2>1, <2>2, <2>3, <2>4, <2>5, <2>6
<1> QED
  BY <1>1, <1>2, <1>3, <1>4, <1>5, <1>6, <1>7

\* A worker fails, ends or dies; another program gets a process id.
LEMMA EndSteps ==
  ASSUME Recorded, IInv, NEW q \in Pids, WorkerFails(q) \/ Exit(q) \/ WorkerDies(q) \/ PidReused(q)
  PROVE  IInv'
<1> USE DEF IInv, TypeOK, PageTells, RequestKnows, MaterialKnown, WorkerKnown, ProgramsKnown, Owner, Alive, Underway,
      Trained, PageOf, files, wizard, workers, Record, Unmade, NoPid, SessionStage, Pages, Requests,
      Move, SaveCopy, WorkerRest, Posts, Ensures, Trains, Programs
<1>1. CASE WorkerFails(q)
  <2>1. TypeOK'
    <3>1. trainer' \in [Pids -> Posts]
      BY <1>1, Constants DEF WorkerFails, Happens, Posts
    <3>2. copy' \in [Pids -> Record \cup {Unmade}]
      <4>0. copy \in [Pids -> Record \cup {Unmade}]
        OBVIOUS
      <4>1. copy[q] \in Record
        BY <1>1 DEF WorkerFails
      <4>2. \E st \in SessionStage : copy' = [copy EXCEPT ![q] = [copy[q] EXCEPT !.stage = st, !.pid = NoPid]]
        BY <1>1 DEF WorkerFails
      <4> HIDE DEF Record, Unmade, NoPid, IInv
      <4>3. \A st \in SessionStage : [copy[q] EXCEPT !.stage = st, !.pid = NoPid] \in Record
        BY <4>1, Rewritten
      <4> QED
        BY <4>0, <4>2, <4>3
    <3>3. disk' \in Record \cup {Unmade}
      <4>1. copy[q] \in Record
        BY <1>1 DEF WorkerFails
      <4> HIDE DEF Record
      <4> QED
        BY <1>1, <4>1, Rewritten DEF WorkerFails
    <3>4. events' \in 0..MaxEvents
      BY <1>1, Constants DEF WorkerFails, Happens
    <3>5. UNCHANGED <<material, dataset, runtime, voice, req, mem, page, shown, begin, others>>
      BY <1>1 DEF WorkerFails, Happens
    <3> QED
      BY <3>1, <3>2, <3>3, <3>4, <3>5
  <2>2. PageTells'
    BY <1>1 DEF WorkerFails, Happens
  <2>3. RequestKnows'
    BY <1>1 DEF WorkerFails, Happens
  <2>4. MaterialKnown'
    BY <1>1 DEF WorkerFails, Happens
  <2>5. ASSUME NEW p \in Pids PROVE WorkerKnown(p)'
    BY <1>1 DEF WorkerFails, Happens
  <2>6. ASSUME NEW p \in Pids PROVE ProgramsKnown(p)'
    BY <1>1 DEF WorkerFails, Happens
  <2> QED
    BY <2>1, <2>2, <2>3, <2>4, <2>5, <2>6
<1>2. CASE Exit(q)
  <2>1. TypeOK'
    BY <1>2, Constants DEF Exit, Forget
  <2>2. PageTells'
    BY <1>2 DEF Exit, Forget
  <2>3. RequestKnows'
    BY <1>2 DEF Exit, Forget
  <2>4. MaterialKnown'
    BY <1>2 DEF Exit, Forget
  <2>5. ASSUME NEW p \in Pids PROVE WorkerKnown(p)'
    BY <1>2 DEF Exit, Forget
  <2>6. ASSUME NEW p \in Pids PROVE ProgramsKnown(p)'
    BY <1>2 DEF Exit, Forget
  <2> QED
    BY <2>1, <2>2, <2>3, <2>4, <2>5, <2>6
<1>3. CASE WorkerDies(q)
  <2>1. TypeOK'
    BY <1>3, Constants DEF WorkerDies, Happens, Forget
  <2>2. PageTells'
    BY <1>3 DEF WorkerDies, Happens, Forget
  <2>3. RequestKnows'
    BY <1>3 DEF WorkerDies, Happens, Forget
  <2>4. MaterialKnown'
    BY <1>3 DEF WorkerDies, Happens, Forget
  <2>5. ASSUME NEW p \in Pids PROVE WorkerKnown(p)'
    BY <1>3 DEF WorkerDies, Happens, Forget
  <2>6. ASSUME NEW p \in Pids PROVE ProgramsKnown(p)'
    BY <1>3 DEF WorkerDies, Happens, Forget
  <2> QED
    BY <2>1, <2>2, <2>3, <2>4, <2>5, <2>6
<1>4. CASE PidReused(q)
  <2>1. TypeOK'
    BY <1>4, Constants DEF PidReused, Happens, Exists, Live
  <2>2. PageTells'
    BY <1>4 DEF PidReused, Happens, Exists, Live
  <2>3. RequestKnows'
    BY <1>4 DEF PidReused, Happens, Exists, Live
  <2>4. MaterialKnown'
    BY <1>4 DEF PidReused, Happens, Exists, Live
  <2>5. ASSUME NEW p \in Pids PROVE WorkerKnown(p)'
    BY <1>4 DEF PidReused, Happens, Exists, Live
  <2>6. ASSUME NEW p \in Pids PROVE ProgramsKnown(p)'
    BY <1>4 DEF PidReused, Happens, Exists, Live
  <2> QED
    BY <2>1, <2>2, <2>3, <2>4, <2>5, <2>6
<1> QED
  BY <1>1, <1>2, <1>3, <1>4

\* The inductive invariant, in every state.
THEOREM Invariance == ASSUME Recorded PROVE Spec => []IInv
<1>1. Init => IInv
  <2> SUFFICES ASSUME Init PROVE IInv
    OBVIOUS
  <2>1. TypeOK
    <3>1. runtime \in Programs /\ trainer \in [Pids -> Posts] /\ copy \in [Pids -> Record \cup {Unmade}]
      BY DEF Init, Programs, Posts
    <3>2. /\ disk = Unmade /\ mem = Unmade /\ shown = Unmade /\ req \in Requests /\ page \in Pages
          /\ material = Absent /\ dataset = Absent /\ voice \in BOOLEAN /\ begin \in BOOLEAN
      BY DEF Init, Requests, Pages
    <3>3. others \in SUBSET Pids /\ events \in 0..MaxEvents
      BY Constants DEF Init
    <3> QED
      BY <3>1, <3>2, <3>3 DEF TypeOK
  <2>2. PageTells /\ RequestKnows
    BY DEF Init, PageTells, RequestKnows
  <2>3. MaterialKnown
    BY DEF Init, MaterialKnown, Unmade, Trained
  <2>4. \A p \in Pids : trainer[p] = "gone"
    BY DEF Init
  <2>5. \A p \in Pids : WorkerKnown(p) /\ ProgramsKnown(p)
    BY <2>4 DEF WorkerKnown, ProgramsKnown, Alive, Trains
  <2> QED
    BY <2>1, <2>2, <2>3, <2>5 DEF IInv
<1>2. IInv /\ [Next]_vars => IInv'
  <2> SUFFICES ASSUME IInv, [Next]_vars PROVE IInv'
    OBVIOUS
  <2>1. CASE UNCHANGED vars
    BY <2>1 DEF vars, IInv, TypeOK, PageTells, RequestKnows, MaterialKnown, WorkerKnown, ProgramsKnown, Alive, Owner
  <2>2. CASE Open \/ Close \/ CloseWindow
    BY <2>2, WizardSteps
  <2>3. CASE Create \/ Inspect \/ Prepare \/ Build \/ BuildFails \/ Swap \/ Gate
    BY <2>3, PreparationSteps
  <2>4. CASE Start \/ Popen \/ PopenFails \/ StartSave
    BY <2>4, StartSteps
  <2>5. CASE Pause \/ Kill \/ PauseSave \/ Status \/ StatusCheck
    BY <2>5, PauseSteps
  <2>6. CASE PowerLoss \/ EngineDies
    BY <2>6, MachineSteps
  <2>7. ASSUME NEW q \in Pids, Work(q) PROVE IInv'
    BY <2>7, ProgramSteps, TrainSteps, EndSteps DEF Work
  <2>8. ASSUME NEW q \in Pids, WorkerFails(q) \/ WorkerDies(q) \/ PidReused(q) PROVE IInv'
    BY <2>8, EndSteps
  <2> QED
    BY <2>1, <2>2, <2>3, <2>4, <2>5, <2>6, <2>7, <2>8 DEF Next, Ask, Coordinate, Disturb
<1> QED
  BY <1>1, <1>2, PTL DEF Spec

\* What the session keeps and who stands where are of their types (TypeOK).
THEOREM SessionTypes == ASSUME Recorded PROVE Spec => []TypeOK
<1>1. IInv => TypeOK
  BY DEF IInv
<1> QED
  BY <1>1, Invariance, PTL

\* One worker at most, and none under a record that says paused, wherever the
\* engine, the worker or the machine stopped: every worker that is not at its
\* end is the one on record, and its record says that it is at work.
THEOREM TrainerFollows == ASSUME Recorded PROVE Spec => []TrainerFollowsRecord
<1>1. ASSUME IInv PROVE OneTrainer
  <2> DEFINE Working == {p \in Live : trainer[p] # "exit"}
  <2>1. \A p, q \in Working : p = q
    BY <1>1 DEF IInv, WorkerKnown, Alive, Live
  <2>2. Cardinality(Working) <= 1
    <3> HIDE DEF Working
    <3>1. CASE Working = {}
      BY <3>1, FS_EmptySet
    <3>2. CASE Working # {}
      <4>1. PICK p \in Working : Working = {p}
        BY <2>1, <3>2
      <4> QED
        BY <4>1, FS_Singleton
    <3> QED
      BY <3>1, <3>2
  <2> QED
    BY <2>2 DEF OneTrainer
<1>2. ASSUME IInv PROVE PausedIsStopped
  BY <1>2 DEF IInv, WorkerKnown, Alive, Live, Underway, PausedIsStopped
<1> QED
  BY <1>1, <1>2, Invariance, PTL DEF TrainerFollowsRecord

-----------------------------------------------------------------------------
(* The cutter.  Between two regions lies more than is added to both of them, *)
(* so the frames that are cut come in the order of the recording; and what   *)
(* is kept for later is joined to the next region or dropped at the end,     *)
(* shorter than a segment.  The steps go by the regions' last frames.        *)

\* The least of some numbers.
LEMMA Least == ASSUME NEW T, T \subseteq Nat, T # {} PROVE \E m \in T : \A k \in T : m <= k
<1>1. PICK m \in T : \A k \in T : ~ (<<k, m>> \in OpToRel(<, Nat))
  BY NatLessThanWellFounded, WFMin
<1>2. \A k \in T : ~(k < m)
  BY <1>1 DEF OpToRel
<1>3. ASSUME NEW k \in T PROVE m <= k
  <2>1. k \in Nat /\ m \in Nat
    OBVIOUS
  <2> QED
    BY <1>2, <2>1
<1> QED
  BY <1>3

\* The larger of two numbers.
LEMMA MaxTwo == ASSUME NEW a \in Int, NEW b \in Int PROVE Max({a, b}) = IF a <= b THEN b ELSE a
  BY DEF Max

\* The smaller.
LEMMA MinTwo == ASSUME NEW a \in Int, NEW b \in Int PROVE Min({a, b}) = IF a <= b THEN a ELSE b
  BY DEF Min

\* The constants of the cutter are numbers.
LEMMA Cuts == /\ Cut.bridge \in Nat /\ Cut.pad \in Nat /\ Cut.shortest \in Nat \ {0} /\ Cut.longest \in Nat \ {0}
              /\ Cut.shortest <= Cut.longest /\ 2 * Cut.pad <= Cut.bridge + 1
<1>1. Cut \in [{"bridge", "pad", "shortest", "longest", "block", "warn"} -> Nat]
  BY CutAssumption
<1>2. Cut["bridge"] \in Nat /\ Cut["pad"] \in Nat /\ Cut["shortest"] \in Nat /\ Cut["longest"] \in Nat
  BY <1>1
<1> QED
  BY <1>2, CutAssumption

\* What was sung is kept, and nothing outside the recording is.
LEMMA BridgeKeeps ==
  ASSUME NEW n \in Nat, NEW active, active \subseteq 1..n
  PROVE  active \subseteq Bridge(active) /\ Bridge(active) \subseteq 1..n
<1>1. ASSUME NEW a \in active PROVE a \in Bridge(active)
  <2>1. a \in Int /\ a - a <= Cut.bridge + 1
    BY Cuts
  <2>2. <<a, a>> \in {q \in active \X active : q[2] - q[1] <= Cut.bridge + 1}
    BY <2>1
  <2>3. a \in (<<a, a>>)[1]..(<<a, a>>)[2]
    BY <2>1
  <2> QED
    BY <2>2, <2>3 DEF Bridge
<1>2. ASSUME NEW i \in Bridge(active) PROVE i \in 1..n
  <2>1. PICK p \in active \X active : i \in p[1]..p[2]
    BY DEF Bridge
  <2>2. p[1] \in 1..n /\ p[2] \in 1..n
    OBVIOUS
  <2> QED
    BY <2>1, <2>2
<1> QED
  BY <1>1, <1>2

\* Where a run begins and ends somebody sings.
LEMMA RunEnds ==
  ASSUME NEW n \in Nat, NEW active, active \subseteq 1..n, NEW r \in Runs(Bridge(active))
  PROVE  /\ r[1] \in active /\ r[2] \in active /\ r[1] <= r[2]
         /\ r[1] - 1 \notin Bridge(active) /\ r[2] + 1 \notin Bridge(active) /\ r[1]..r[2] \subseteq Bridge(active)
<1>1. r[1] \in Bridge(active) /\ r[2] \in Bridge(active) /\ r[1] <= r[2]
      /\ r[1] - 1 \notin Bridge(active) /\ r[2] + 1 \notin Bridge(active) /\ r[1]..r[2] \subseteq Bridge(active)
  BY DEF Runs
<1> DEFINE Joins(p) == p \in active \X active /\ p[2] - p[1] <= Cut.bridge + 1
<1>2. ASSUME NEW i \in Bridge(active)
      PROVE  \E p : Joins(p) /\ i \in p[1]..p[2] /\ p[1] \in active /\ p[2] \in active /\ p[1]..p[2] \subseteq Bridge(active)
  <2>1. PICK p \in {q \in active \X active : q[2] - q[1] <= Cut.bridge + 1} : i \in p[1]..p[2]
    BY DEF Bridge
  <2>2. p[1]..p[2] \subseteq Bridge(active)
    BY DEF Bridge
  <2> QED
    BY <2>1, <2>2
<1>0. Bridge(active) \subseteq 1..n
  BY BridgeKeeps
<1> HIDE DEF Joins
<1>4. r[1] \in active
  <2>1. PICK p : r[1] \in p[1]..p[2] /\ p[1] \in active /\ p[2] \in active /\ p[1]..p[2] \subseteq Bridge(active)
    BY <1>1, <1>2
  <2>2. r[1] - 1 \notin p[1]..p[2]
    BY <1>1, <2>1
  <2>3. r[1] = p[1]
    <3>1. p[1] \in Int /\ p[2] \in Int /\ r[1] \in Int
      <4>1. r[1] \in 1..n
        BY <1>0, <1>1
      <4>2. p[1] \in 1..n /\ p[2] \in 1..n
        BY <2>1
      <4> QED
        BY <4>1, <4>2
    <3> QED
      BY <2>1, <2>2, <3>1
  <2> QED
    BY <2>1, <2>3
<1>5. r[2] \in active
  <2>1. PICK p : r[2] \in p[1]..p[2] /\ p[1] \in active /\ p[2] \in active /\ p[1]..p[2] \subseteq Bridge(active)
    BY <1>1, <1>2
  <2>2. r[2] + 1 \notin p[1]..p[2]
    BY <1>1, <2>1
  <2>3. r[2] = p[2]
    <3>1. p[1] \in Int /\ p[2] \in Int /\ r[2] \in Int
      <4>1. r[2] \in 1..n
        BY <1>0, <1>1
      <4>2. p[1] \in 1..n /\ p[2] \in 1..n
        BY <2>1
      <4> QED
        BY <4>1, <4>2
    <3> QED
      BY <2>1, <2>2, <3>1
  <2> QED
    BY <2>1, <2>3
<1> QED
  BY <1>1, <1>4, <1>5

\* Two regions do not touch, with what is added on both sides.
LEMMA RunsApart ==
  ASSUME NEW n \in Nat, NEW active, active \subseteq 1..n,
         NEW q \in Runs(Bridge(active)), NEW r \in Runs(Bridge(active)), q[2] < r[2]
  PROVE  q[2] + Cut.pad < r[1] - Cut.pad
<1>1. q[2] \in active /\ q[2] + 1 \notin Bridge(active) /\ q[1] \in active
  BY RunEnds
<1>2. r[1] \in active /\ r[2] \in active /\ r[1] <= r[2] /\ r[1]..r[2] \subseteq Bridge(active)
  BY RunEnds
<1>3. q[2] \in Int /\ r[1] \in Int /\ r[2] \in Int
  <2>1. q[2] \in 1..n /\ r[1] \in 1..n /\ r[2] \in 1..n
    BY <1>1, <1>2
  <2> QED
    BY <2>1
<1>4. q[2] < r[1]
  <2>1. q[2] + 1 \notin r[1]..r[2]
    BY <1>1, <1>2
  <2> QED
    BY <1>1, <1>2, <1>3, <2>1
<1>5. ~(r[1] - q[2] <= Cut.bridge + 1)
  <2>1. SUFFICES ASSUME r[1] - q[2] <= Cut.bridge + 1 PROVE FALSE
    OBVIOUS
  <2>2. <<q[2], r[1]>> \in {p \in active \X active : p[2] - p[1] <= Cut.bridge + 1}
    BY <1>1, <1>2, <2>1
  <2>3. q[2] + 1 \in (<<q[2], r[1]>>)[1]..(<<q[2], r[1]>>)[2]
    BY <1>1, <1>2, <1>3, <1>4
  <2>4. q[2] + 1 \in Bridge(active)
    BY <2>2, <2>3 DEF Bridge
  <2> QED
    BY <1>1, <2>4
<1> QED
  BY <1>1, <1>2, <1>3, <1>5, Cuts

\* What is kept is in a run.
LEMMA RunAround ==
  ASSUME NEW n \in Nat, NEW kept, kept \subseteq 1..n, NEW i \in kept
  PROVE  \E r \in Runs(kept) : r[1] <= i /\ i <= r[2]
<1>1. i \in 1..n
  OBVIOUS
<1> DEFINE T == {e \in Nat : i + e + 1 \notin kept}
           B == {e \in Nat : i - e - 1 \notin kept}
<1>2. PICK t \in T : \A k \in T : t <= k
  <2>1. n \in T
    BY <1>1
  <2> QED
    BY <2>1, Least
<1>3. PICK b \in B : \A k \in B : b <= k
  <2>1. n \in B
    BY <1>1
  <2> QED
    BY <2>1, Least
<1>4. ASSUME NEW j \in (i - b)..(i + t) PROVE j \in kept
  <2>1. CASE j = i
    BY <2>1
  <2>2. CASE j > i
    <3>1. j - i - 1 \in Nat /\ ~(t <= j - i - 1)
      BY <1>1, <1>2, <1>4, <2>2
    <3>2. j - i - 1 \notin T
      BY <1>2, <3>1
    <3>3. i + (j - i - 1) + 1 = j
      BY <1>1, <1>4
    <3> QED
      BY <3>1, <3>2, <3>3
  <2>3. CASE j < i
    <3>1. i - j - 1 \in Nat /\ ~(b <= i - j - 1)
      BY <1>1, <1>3, <1>4, <2>3
    <3>2. i - j - 1 \notin B
      BY <1>3, <3>1
    <3>3. i - (i - j - 1) - 1 = j
      BY <1>1, <1>4
    <3> QED
      BY <3>1, <3>2, <3>3
  <2> QED
    BY <1>1, <1>4, <2>1, <2>2, <2>3
<1> DEFINE r == <<i - b, i + t>>
<1>5. r \in kept \X kept /\ r[1] <= i /\ i <= r[2]
  BY <1>1, <1>2, <1>3, <1>4
<1>6. r[1] - 1 \notin kept /\ r[2] + 1 \notin kept
  BY <1>2, <1>3
<1>7. r[1]..r[2] \subseteq kept
  BY <1>4
<1>8. r[1] <= r[2]
  BY <1>1, <1>2, <1>3
<1> HIDE DEF r
<1> QED
  BY <1>5, <1>6, <1>7, <1>8 DEF Runs

\* Division by a positive number.
LEMMA Divided ==
  ASSUME NEW a \in Nat, NEW b \in Nat \ {0}
  PROVE  a \div b \in Nat /\ (a \div b) * b \in Nat /\ (a \div b) * b <= a /\ a - (a \div b) * b < b
<1>1. a = b * (a \div b) + (a % b) /\ a % b \in 0..(b - 1) /\ a \div b \in Int
  OBVIOUS
<1>2. a \div b \in Nat
  OBVIOUS
<1> DEFINE q == a \div b
           r == a % b
<1>3. a = b * q + r /\ r \in 0..(b - 1) /\ q \in Nat
  BY <1>1, <1>2
<1> HIDE DEF q, r
<1>4. b * q = q * b /\ q * b \in Nat
  BY <1>3
<1>5. q * b <= a /\ a - q * b < b
  BY <1>3, <1>4
<1> QED
  BY <1>3, <1>4, <1>5 DEF q

\* Places of a sequence in pieces of one length.
LEMMA PieceOrder ==
  ASSUME NEW L \in Nat, NEW i \in Nat \ {0}, NEW j \in Nat \ {0}, i < j
  PROVE  (i - 1) * L \in Nat /\ (j - 1) * L \in Nat /\ (i - 1) * L + L <= (j - 1) * L
<1> DEFINE d == j - i - 1
<1>1. d \in Nat /\ i - 1 \in Nat /\ j - 1 \in Nat /\ j - 1 = (i - 1) + 1 + d
  OBVIOUS
<1>2. d * L \in Nat /\ (i - 1) * L \in Nat
  BY <1>1
<1> HIDE DEF d
<1>3. (j - 1) * L = (i - 1) * L + L + d * L
  <2>1. ((i - 1) + 1 + d) * L = (i - 1) * L + 1 * L + d * L
    BY <1>1
  <2> QED
    BY <1>1, <2>1
<1> QED
  BY <1>2, <1>3

\* What is cut off from the front, and what is left.
LEMMA FullShape ==
  ASSUME NEW all \in Seq(Nat)
  PROVE  LET L == Cut.longest  q == Len(all) \div L IN
         /\ q \in Nat /\ q * L \in Nat
         /\ Full(all) \in Seq(Seq(Nat)) /\ Len(Full(all)) = q
         /\ \A j \in 1..q : Len(Full(all)[j]) = L /\ \A a \in 1..L :
              (j - 1) * L + a \in 1..(q * L) /\ Full(all)[j][a] = all[(j - 1) * L + a]
         /\ Rest(all) \in Seq(Nat) /\ Len(Rest(all)) = Len(all) - q * L /\ Len(Rest(all)) < L
         /\ \A a \in 1..Len(Rest(all)) : q * L + a \in 1..Len(all) /\ Rest(all)[a] = all[q * L + a]
         /\ q * L <= Len(all)
<1> DEFINE L == Cut.longest
           q == Len(all) \div L
           m == q * L
<1>1. L \in Nat \ {0} /\ Len(all) \in Nat
  BY Cuts
<1>2. q \in Nat /\ m \in Nat /\ m <= Len(all) /\ Len(all) - m < L
  BY <1>1, Divided
<1>3. ASSUME NEW j \in 1..q
      PROVE  (j - 1) * L \in Nat /\ j * L \in Nat /\ j * L = (j - 1) * L + L /\ j * L <= m
  <2>1. (j - 1) * L \in Nat /\ j * L = (j - 1) * L + L
    <3> HIDE DEF L, q
    <3>1. j \in Nat /\ j - 1 \in Nat
      BY <1>2
    <3> QED
      BY <1>1, <3>1
  <2>2. j * L <= m
    <3>1. j \in Nat \ {0} /\ q + 1 \in Nat \ {0} /\ j < q + 1 /\ (q + 1) - 1 = q
      BY <1>2
    <3>2. (j - 1) * L + L <= ((q + 1) - 1) * L
      BY <1>1, <3>1, PieceOrder
    <3> QED
      BY <2>1, <3>1, <3>2
  <2> QED
    BY <1>1, <2>1, <2>2
<1> HIDE DEF L
<1>4. Full(all) = [j \in 1..q |-> SubSeq(all, (j - 1) * L + 1, j * L)]
  BY DEF Full, L
<1>5. Rest(all) = SubSeq(all, m + 1, Len(all))
  BY DEF Rest, L
<1> HIDE DEF q
<1>6. ASSUME NEW j \in 1..q
      PROVE  LET s == SubSeq(all, (j - 1) * L + 1, j * L) IN
             s \in Seq(Nat) /\ Len(s) = L /\ \A a \in 1..L : (j - 1) * L + a \in 1..m /\ s[a] = all[(j - 1) * L + a]
  <2> DEFINE f == (j - 1) * L
  <2>1. f \in Nat /\ f + L <= m /\ j * L = f + L
    BY <1>1, <1>2, <1>3
  <2> HIDE DEF f, m
  <2> DEFINE s == SubSeq(all, f + 1, f + L)
  <2>2. s \in Seq(Nat) /\ Len(s) = L
    BY <1>1, <1>2, <2>1
  <2>3. \A a \in 1..L : f + a \in 1..m /\ s[a] = all[f + a]
    <3>1. ASSUME NEW a \in 1..L PROVE f + a \in 1..m /\ s[a] = all[f + a]
      <4>1. f + a \in 1..m
        BY <1>1, <1>2, <2>1
      <4>2. s[a] = all[(f + 1) + a - 1]
        BY <1>1, <1>2, <2>1
      <4>3. (f + 1) + a - 1 = f + a
        BY <2>1, <1>1
      <4> QED
        BY <4>1, <4>2, <4>3
    <3> QED
      BY <3>1
  <2> HIDE DEF s
  <2>4. SubSeq(all, (j - 1) * L + 1, j * L) = s
    BY <2>1 DEF s, f
  <2> QED
    BY <2>2, <2>3, <2>4 DEF f
<1>7. Full(all) \in Seq(Seq(Nat)) /\ Len(Full(all)) = q
  BY <1>2, <1>4, <1>6
<1>8. \A j \in 1..q : Full(all)[j] = SubSeq(all, (j - 1) * L + 1, j * L)
  BY <1>4
<1>9. ASSUME NEW j \in 1..q
      PROVE  Len(Full(all)[j]) = L /\ \A a \in 1..L : (j - 1) * L + a \in 1..m /\ Full(all)[j][a] = all[(j - 1) * L + a]
  BY <1>6, <1>8
<1> HIDE DEF m
<1>10. Rest(all) \in Seq(Nat) /\ Len(Rest(all)) = Len(all) - m /\ Len(Rest(all)) < L
  BY <1>1, <1>2, <1>5
<1>11. ASSUME NEW a \in 1..Len(Rest(all)) PROVE m + a \in 1..Len(all) /\ Rest(all)[a] = all[m + a]
  <2>1. m + a \in 1..Len(all)
    BY <1>2, <1>10
  <2>2. Rest(all)[a] = all[(m + 1) + a - 1] /\ (m + 1) + a - 1 = m + a
    BY <1>1, <1>2, <1>5, <1>10
  <2> QED
    BY <2>1, <2>2
<1> QED
  BY <1>2, <1>7, <1>9, <1>10, <1>11 DEF L, q, m

\* Segments that are in order, and what is left after them.
Lengths(out)  == \A j \in 1..Len(out) : Len(out[j]) \in Cut.shortest..Cut.longest
Before(i, a, j, b) == i < j \/ (i = j /\ a < b)
InTurn(out)   == \A i, j \in 1..Len(out) : \A a \in 1..Len(out[i]), b \in 1..Len(out[j]) :
                   Before(i, a, j, b) => out[i][a] < out[j][b]
Behind(out, rest) == \A i \in 1..Len(out), b \in 1..Len(rest) : \A a \in 1..Len(out[i]) : out[i][a] < rest[b]
Rising(s)     == \A a, b \in 1..Len(s) : a < b => s[a] < s[b]
Neat(out, rest) ==
  /\ out \in Seq(Seq(Nat)) /\ rest \in Seq(Nat)
  /\ Lengths(out) /\ InTurn(out) /\ Behind(out, rest) /\ Rising(rest)

\* A frame is in one of them.
Holds(out, rest, x) ==
  (\E j \in 1..Len(out) : \E a \in 1..Len(out[j]) : x = out[j][a]) \/ (\E a \in 1..Len(rest) : x = rest[a])

\* Cutting off what is too long keeps order, lengths and frames.
LEMMA CutKeeps ==
  ASSUME NEW out, NEW all, Neat(out, all)
  PROVE  /\ Neat(out \o Full(all), Rest(all)) /\ Len(Rest(all)) < Cut.longest
         /\ \A x : Holds(out, all, x) <=> Holds(out \o Full(all), Rest(all), x)
<1> DEFINE L == Cut.longest
           q == Len(all) \div L
           F == Full(all)
           R == Rest(all)
           o == Len(out)
           new == out \o F
<1>1. out \in Seq(Seq(Nat)) /\ all \in Seq(Nat) /\ o \in Nat /\ Len(all) \in Nat
  BY DEF Neat
<1>2. /\ q \in Nat /\ q * L \in Nat /\ q * L <= Len(all)
      /\ F \in Seq(Seq(Nat)) /\ Len(F) = q
      /\ R \in Seq(Nat) /\ Len(R) = Len(all) - q * L /\ Len(R) < L
  BY <1>1, FullShape
<1>3. ASSUME NEW j \in 1..q
      PROVE  Len(F[j]) = L /\ \A a \in 1..L : (j - 1) * L + a \in 1..(q * L) /\ F[j][a] = all[(j - 1) * L + a]
  BY <1>1, <1>3, FullShape
<1>4. ASSUME NEW a \in 1..Len(R) PROVE q * L + a \in 1..Len(all) /\ R[a] = all[q * L + a]
  BY <1>1, <1>4, FullShape
<1>5. L \in Nat \ {0} /\ Cut.shortest \in Nat /\ Cut.shortest <= L
  BY Cuts
<1> HIDE DEF L, q, F, R
<1>6. new \in Seq(Seq(Nat)) /\ Len(new) = o + q
  <2> DEFINE S == Seq(Nat)
  <2>1. out \in Seq(S) /\ F \in Seq(S)
    BY <1>1, <1>2
  <2> HIDE DEF S
  <2>2. new \in Seq(S) /\ Len(new) = Len(out) + Len(F)
    BY <2>1
  <2> QED
    BY <1>2, <2>2 DEF S
<1>7. ASSUME NEW j \in 1..Len(new) PROVE new[j] = IF j <= o THEN out[j] ELSE F[j - o]
  BY <1>1, <1>2, <1>6
<1>8. ASSUME NEW j \in 1..Len(new), ~(j <= o) PROVE j - o \in 1..q
  BY <1>1, <1>2, <1>6, <1>8
<1> HIDE DEF o, new
<1>9. Lengths(new)
  <2>1. ASSUME NEW j \in 1..Len(new) PROVE Len(new[j]) \in Cut.shortest..Cut.longest
    <3>1. CASE j <= o
      <4>1. j \in 1..Len(out)
        BY <1>1, <3>1, <1>6 DEF o
      <4> QED
        BY <1>7, <3>1, <4>1 DEF Neat, Lengths
    <3>2. CASE ~(j <= o)
      <4>1. Len(new[j]) = L
        BY <1>3, <1>7, <1>8, <3>2
      <4> QED
        BY <1>5, <4>1 DEF L
    <3> QED
      BY <3>1, <3>2
  <2> QED
    BY <2>1 DEF Lengths
\* A frame of the pieces is one of what was cut, at its place.
<1>10. ASSUME NEW j \in 1..Len(new), ~(j <= o), NEW a \in 1..Len(new[j])
       PROVE  /\ (j - o - 1) * L + a \in 1..(q * L) /\ (j - o - 1) * L + a \in 1..Len(all)
              /\ new[j][a] = all[(j - o - 1) * L + a]
  <2>1. j - o \in 1..q /\ new[j] = F[j - o]
    BY <1>7, <1>8, <1>10
  <2>2. a \in 1..L
    BY <1>3, <2>1
  <2>3. (j - o - 1) * L + a \in 1..(q * L) /\ new[j][a] = all[(j - o - 1) * L + a]
    BY <1>3, <2>1, <2>2
  <2> QED
    BY <1>1, <1>2, <2>3
<1>11. ASSUME NEW j \in 1..Len(new), j <= o PROVE j \in 1..Len(out) /\ new[j] = out[j]
  BY <1>1, <1>6, <1>7, <1>11 DEF o
<1>12. InTurn(new)
  <2>1. ASSUME NEW i \in 1..Len(new), NEW j \in 1..Len(new), NEW a \in 1..Len(new[i]), NEW b \in 1..Len(new[j]),
               Before(i, a, j, b)
        PROVE  new[i][a] < new[j][b]
    <3>1. i <= j
      BY <2>1, <1>6, <1>1, <1>2 DEF Before
    <3>2. CASE j <= o
      <4>1. i <= o
        BY <3>1, <3>2, <1>6, <1>1, <1>2
      <4> QED
        BY <1>11, <2>1, <3>2, <4>1 DEF Neat, InTurn
    <3>3. CASE ~(j <= o) /\ i <= o
      <4> DEFINE y == (j - o - 1) * L + b
      <4>1. y \in 1..Len(all) /\ new[j][b] = all[y]
        BY <1>10, <3>3
      <4> HIDE DEF y
      <4>2. i \in 1..Len(out) /\ new[i] = out[i]
        BY <1>11, <3>3
      <4> QED
        BY <4>1, <4>2 DEF Neat, Behind
    <3>4. CASE ~(j <= o) /\ ~(i <= o)
      <4> DEFINE x == (i - o - 1) * L + a
                 y == (j - o - 1) * L + b
      <4>1. x \in 1..Len(all) /\ new[i][a] = all[x]
        BY <1>10, <3>4
      <4>2. y \in 1..Len(all) /\ new[j][b] = all[y]
        BY <1>10, <3>4
      <4>3. i - o \in 1..q /\ j - o \in 1..q /\ a \in 1..L /\ b \in Nat \ {0}
        <5>1. i - o \in 1..q /\ j - o \in 1..q /\ new[i] = F[i - o] /\ new[j] = F[j - o]
          BY <1>7, <1>8, <3>4
        <5>2. Len(F[i - o]) = L /\ Len(F[j - o]) = L
          BY <1>3, <5>1
        <5>3. a \in 1..L /\ b \in 1..L
          BY <5>1, <5>2
        <5> QED
          BY <1>5, <5>1, <5>3
      <4>4. x < y
        <5>1. CASE i < j
          <6>1. i - o \in Nat \ {0} /\ j - o \in Nat \ {0} /\ i - o < j - o
            BY <1>1, <1>6, <4>3, <5>1
          <6>2. (i - o - 1) * L + L <= (j - o - 1) * L /\ (i - o - 1) * L \in Nat /\ (j - o - 1) * L \in Nat
            BY <1>5, <6>1, PieceOrder
          <6> DEFINE u == (i - o - 1) * L
                     v == (j - o - 1) * L
          <6>3. u \in Nat /\ v \in Nat /\ u + L <= v /\ x = u + a /\ y = v + b
            BY <6>2
          <6> HIDE DEF u, v, x, y
          <6> QED
            BY <1>5, <4>3, <6>3
        <5>2. CASE i = j
          <6>1. a < b
            BY <2>1, <5>2 DEF Before
          <6>2. (i - o - 1) * L \in Nat
            <7> DEFINE k == i - o - 1
            <7>1. k \in Nat /\ L \in Nat
              BY <1>5, <4>3
            <7> HIDE DEF k
            <7>2. k * L \in Nat
              BY <7>1
            <7> QED
              BY <7>2 DEF k
          <6> DEFINE u == (i - o - 1) * L
          <6>3. u \in Nat /\ x = u + a /\ y = u + b
            BY <5>2, <6>2
          <6> HIDE DEF u, x, y
          <6> QED
            BY <4>3, <6>1, <6>3
        <5> QED
          BY <3>1, <5>1, <5>2
      <4> HIDE DEF x, y
      <4> QED
        BY <4>1, <4>2, <4>4 DEF Neat, Rising
    <3> QED
      BY <3>2, <3>3, <3>4
  <2> QED
    BY <2>1 DEF InTurn
<1>13. Behind(new, R)
  <2>1. ASSUME NEW i \in 1..Len(new), NEW b \in 1..Len(R), NEW a \in 1..Len(new[i]) PROVE new[i][a] < R[b]
    <3> DEFINE y == q * L + b
    <3>1. y \in 1..Len(all) /\ R[b] = all[y]
      BY <1>4
    <3>2. CASE i <= o
      <4> HIDE DEF y
      <4> QED
        BY <1>11, <3>1, <3>2 DEF Neat, Behind
    <3>3. CASE ~(i <= o)
      <4> DEFINE x == (i - o - 1) * L + a
      <4>1. x \in 1..(q * L) /\ x \in 1..Len(all) /\ new[i][a] = all[x]
        BY <1>10, <3>3
      <4> HIDE DEF x
      <4>2. x < y
        BY <1>2, <4>1
      <4> HIDE DEF y
      <4> QED
        BY <3>1, <4>1, <4>2 DEF Neat, Rising
    <3> QED
      BY <3>2, <3>3
  <2> QED
    BY <2>1 DEF Behind
<1>14. Rising(R)
  <2>1. ASSUME NEW a \in 1..Len(R), NEW b \in 1..Len(R), a < b PROVE R[a] < R[b]
    <3> DEFINE x == q * L + a
               y == q * L + b
    <3>1. x \in 1..Len(all) /\ y \in 1..Len(all) /\ R[a] = all[x] /\ R[b] = all[y]
      BY <1>4
    <3>2. x < y
      BY <1>2, <2>1
    <3> HIDE DEF x, y
    <3> QED
      BY <3>1, <3>2 DEF Neat, Rising
  <2> QED
    BY <2>1 DEF Rising
<1>15. ASSUME NEW x PROVE Holds(out, all, x) => Holds(new, R, x)
  <2>1. ASSUME NEW j \in 1..Len(out), NEW a \in 1..Len(out[j]), x = out[j][a] PROVE Holds(new, R, x)
    <3>1. j \in 1..Len(new) /\ j <= o
      BY <1>1, <1>2, <1>6 DEF o
    <3>2. new[j] = out[j]
      BY <1>7, <3>1
    <3> QED
      BY <2>1, <3>1, <3>2 DEF Holds
  <2>2. ASSUME NEW c \in 1..Len(all), x = all[c] PROVE Holds(new, R, x)
    <3>1. CASE c <= q * L
      <4> DEFINE k == (c - 1) \div L
      <4>1. c - 1 \in Nat
        OBVIOUS
      <4>2. k \in Nat /\ k * L \in Nat /\ k * L <= c - 1 /\ (c - 1) - k * L < L
        BY <1>5, <4>1, Divided
      <4> HIDE DEF k
      <4>3. k < q
        <5>1. SUFFICES ASSUME ~(k < q) PROVE FALSE
          OBVIOUS
        <5>2. k - q \in Nat
          BY <1>2, <4>2, <5>1
        <5>3. (k - q) * L \in Nat /\ k * L = q * L + (k - q) * L
          BY <1>2, <1>5, <4>2, <5>2
        <5> QED
          BY <1>2, <3>1, <4>2, <5>3
      <4> DEFINE j == k + 1
                 a == c - k * L
      <4>4. j \in 1..q /\ a \in 1..L /\ j - 1 = k /\ k * L + a = c
        BY <1>2, <1>5, <4>2, <4>3
      <4> HIDE DEF a, j
      <4>5. o + j \in 1..Len(new) /\ ~(o + j <= o) /\ (o + j) - o = j
        BY <1>1, <1>2, <1>6, <4>4
      <4>6. new[o + j] = F[j]
        BY <1>7, <4>5
      <4>7. Len(F[j]) = L /\ F[j][a] = all[(j - 1) * L + a]
        BY <1>3, <4>4
      <4>8. F[j][a] = x
        BY <2>2, <4>4, <4>7
      <4> QED
        BY <4>4, <4>5, <4>6, <4>7, <4>8 DEF Holds
    <3>2. CASE ~(c <= q * L)
      <4> DEFINE a == c - q * L
      <4>1. a \in 1..Len(R) /\ q * L + a = c
        BY <1>1, <1>2, <3>2
      <4> HIDE DEF a
      <4>2. R[a] = all[c]
        BY <1>4, <4>1
      <4> QED
        BY <2>2, <4>1, <4>2 DEF Holds
    <3> QED
      BY <3>1, <3>2
  <2> QED
    BY <2>1, <2>2 DEF Holds
<1>16. ASSUME NEW x PROVE Holds(new, R, x) => Holds(out, all, x)
  <2>1. ASSUME NEW j \in 1..Len(new), NEW a \in 1..Len(new[j]), x = new[j][a] PROVE Holds(out, all, x)
    <3>1. CASE j <= o
      BY <1>11, <2>1, <3>1 DEF Holds
    <3>2. CASE ~(j <= o)
      <4> DEFINE c == (j - o - 1) * L + a
      <4>1. c \in 1..Len(all) /\ new[j][a] = all[c]
        BY <1>10, <3>2
      <4> HIDE DEF c
      <4> QED
        BY <2>1, <4>1 DEF Holds
    <3> QED
      BY <3>1, <3>2
  <2>2. ASSUME NEW a \in 1..Len(R), x = R[a] PROVE Holds(out, all, x)
    <3> DEFINE c == q * L + a
    <3>1. c \in 1..Len(all) /\ R[a] = all[c]
      BY <1>4
    <3> HIDE DEF c
    <3> QED
      BY <2>2, <3>1 DEF Holds
  <2> QED
    BY <2>1, <2>2 DEF Holds
<1>17. Neat(new, R)
  BY <1>2, <1>6, <1>9, <1>12, <1>13, <1>14 DEF Neat
<1> QED
  BY <1>2, <1>15, <1>16, <1>17 DEF new, F, R, L

\* What is long enough is a segment, and the rest waits.
LEMMA KeepKeeps ==
  ASSUME NEW out, NEW rest, Neat(out, rest), Len(rest) < Cut.longest
  PROVE  /\ Neat(Keep(out, rest).out, Keep(out, rest).pending) /\ Len(Keep(out, rest).pending) < Cut.shortest
         /\ \A x : Holds(out, rest, x) <=> Holds(Keep(out, rest).out, Keep(out, rest).pending, x)
<1>1. out \in Seq(Seq(Nat)) /\ rest \in Seq(Nat) /\ Len(out) \in Nat /\ Len(rest) \in Nat
  BY DEF Neat
<1>2. CASE Len(rest) < Cut.shortest
  BY <1>2 DEF Keep
<1>3. CASE ~(Len(rest) < Cut.shortest)
  <2> DEFINE new == Append(out, rest)
             o == Len(out)
  <2>1. Keep(out, rest).out = new /\ Keep(out, rest).pending = <<>>
    BY <1>3 DEF Keep
  <2>2. new \in Seq(Seq(Nat)) /\ Len(new) = o + 1
    <3> DEFINE S == Seq(Nat)
    <3>1. out \in Seq(S) /\ rest \in S
      BY <1>1
    <3> HIDE DEF S
    <3>2. new \in Seq(S) /\ Len(new) = o + 1
      BY <3>1
    <3> QED
      BY <3>2 DEF S
  <2>3. \A j \in 1..o : new[j] = out[j]
    BY <1>1
  <2>4. new[o + 1] = rest
    BY <1>1
  <2>5. o \in Nat
    BY <1>1
  <2> HIDE DEF new, o
  <2>6. Lengths(new)
    <3>1. ASSUME NEW j \in 1..Len(new) PROVE Len(new[j]) \in Cut.shortest..Cut.longest
      <4>1. CASE j = o + 1
        BY <1>1, <1>3, <2>4, <4>1, Cuts
      <4>2. CASE j # o + 1
        <5>1. j \in 1..o
          BY <2>2, <2>5, <4>2
        <5> QED
          BY <2>3, <5>1 DEF Neat, Lengths, o
      <4> QED
        BY <4>1, <4>2
    <3> QED
      BY <3>1 DEF Lengths
  <2>7. InTurn(new)
    <3>1. ASSUME NEW i \in 1..Len(new), NEW j \in 1..Len(new), NEW a \in 1..Len(new[i]), NEW b \in 1..Len(new[j]),
                 Before(i, a, j, b)
          PROVE  new[i][a] < new[j][b]
      <4>1. CASE j \in 1..o
        <5>1. i \in 1..o
          BY <2>2, <2>5, <3>1, <4>1 DEF Before
        <5> QED
          BY <2>3, <3>1, <4>1, <5>1 DEF Neat, InTurn, o
      <4>2. CASE j = o + 1 /\ i \in 1..o
        <5>1. new[j] = rest /\ new[i] = out[i]
          BY <2>3, <2>4, <4>2
        <5> QED
          BY <4>2, <5>1 DEF Neat, Behind, o
      <4>3. CASE j = o + 1 /\ i = o + 1
        <5>1. new[j] = rest /\ new[i] = rest /\ a < b
          BY <2>4, <2>5, <3>1, <4>3 DEF Before
        <5> QED
          BY <5>1 DEF Neat, Rising
      <4> QED
        BY <2>2, <2>5, <4>1, <4>2, <4>3
    <3> QED
      BY <3>1 DEF InTurn
  <2>8. Neat(new, <<>>)
    BY <2>2, <2>6, <2>7 DEF Neat, Behind, Rising
  <2>9. ASSUME NEW x PROVE Holds(out, rest, x) => Holds(new, <<>>, x)
    <3>1. ASSUME NEW j \in 1..Len(out), NEW a \in 1..Len(out[j]), x = out[j][a] PROVE Holds(new, <<>>, x)
      <4>1. j \in 1..o /\ j \in 1..Len(new)
        BY <2>2, <2>5 DEF o
      <4> QED
        BY <2>3, <3>1, <4>1 DEF Holds
    <3>2. ASSUME NEW a \in 1..Len(rest), x = rest[a] PROVE Holds(new, <<>>, x)
      <4>1. o + 1 \in 1..Len(new)
        BY <2>2, <2>5
      <4> QED
        BY <2>4, <3>2, <4>1 DEF Holds
    <3> QED
      BY <3>1, <3>2 DEF Holds
  <2>10. ASSUME NEW x PROVE Holds(new, <<>>, x) => Holds(out, rest, x)
    <3>1. ASSUME NEW j \in 1..Len(new), NEW a \in 1..Len(new[j]), x = new[j][a] PROVE Holds(out, rest, x)
      <4>1. CASE j = o + 1
        BY <2>4, <3>1, <4>1 DEF Holds
      <4>2. CASE j # o + 1
        <5>1. j \in 1..o
          BY <2>2, <2>5, <4>2
        <5> QED
          BY <2>3, <3>1, <5>1 DEF Holds, o
      <4> QED
        BY <4>1, <4>2
    <3> QED
      BY <3>1 DEF Holds
  <2> QED
    BY <2>1, <2>8, <2>9, <2>10, Cuts
<1> QED
  BY <1>2, <1>3

\* A region that lies behind everything so far is added in order.
LEMMA SpanKeeps ==
  ASSUME NEW out, NEW rest, Neat(out, rest), NEW f \in Nat, NEW l \in Nat, f <= l,
         \A x : Holds(out, rest, x) => x < f
  PROVE  /\ Neat(out, rest \o Span(<<f, l>>))
         /\ \A x : Holds(out, rest \o Span(<<f, l>>), x) <=> Holds(out, rest, x) \/ x \in f..l
<1> DEFINE n == l - f + 1
           m == Len(rest)
           span == [i \in 1..n |-> f + i - 1]
           all == rest \o span
<1>1. out \in Seq(Seq(Nat)) /\ rest \in Seq(Nat) /\ m \in Nat /\ n \in Nat
  BY DEF Neat
<1>2. Span(<<f, l>>) = span
  BY DEF Span
<1>3. span \in Seq(Nat) /\ Len(span) = n /\ \A i \in 1..n : span[i] = f + i - 1
  <2>1. \A i \in 1..n : f + i - 1 \in Nat
    OBVIOUS
  <2> HIDE DEF n
  <2> QED
    BY <1>1, <2>1
<1> HIDE DEF span
<1>4. all \in Seq(Nat) /\ Len(all) = m + n
  <2>1. rest \in Seq(Nat) /\ span \in Seq(Nat)
    BY <1>1, <1>3
  <2>2. all \in Seq(Nat) /\ Len(all) = Len(rest) + Len(span)
    BY <2>1
  <2> QED
    BY <1>3, <2>2
<1>5. ASSUME NEW a \in 1..Len(all) PROVE all[a] = IF a <= m THEN rest[a] ELSE span[a - m]
  <2> HIDE DEF n
  <2>1. a \in 1..(m + n)
    BY <1>4
  <2> QED
    BY <1>1, <1>3, <2>1 DEF all
<1> HIDE DEF all
<1>6. ASSUME NEW a \in 1..Len(all) PROVE (a <= m /\ a \in 1..Len(rest) /\ all[a] = rest[a])
                                         \/ (~(a <= m) /\ all[a] = f + (a - m) - 1 /\ a - m \in 1..n)
  <2>1. CASE a <= m
    BY <1>1, <1>4, <1>5, <2>1
  <2>2. CASE ~(a <= m)
    <3>1. a - m \in 1..n
      BY <1>1, <1>4, <2>2
    <3> QED
      BY <1>3, <1>5, <2>2, <3>1
  <2> QED
    BY <2>1, <2>2
<1>7. Rising(all)
  <2>1. ASSUME NEW a \in 1..Len(all), NEW b \in 1..Len(all), a < b PROVE all[a] < all[b]
    <3>1. CASE b <= m
      <4>1. a <= m
        BY <1>1, <1>4, <2>1, <3>1
      <4> QED
        BY <1>6, <2>1, <3>1, <4>1 DEF Neat, Rising
    <3>2. CASE ~(b <= m) /\ a <= m
      <4>1. Holds(out, rest, all[a])
        BY <1>6, <3>2 DEF Holds
      <4>2. all[a] < f /\ all[a] \in Nat
        BY <1>4, <4>1
      <4> QED
        BY <1>6, <3>2, <4>2
    <3>3. CASE ~(b <= m) /\ ~(a <= m)
      BY <1>1, <1>4, <1>6, <2>1, <3>3
    <3> QED
      BY <3>1, <3>2, <3>3
  <2> QED
    BY <2>1 DEF Rising
<1>8. Behind(out, all)
  <2>1. ASSUME NEW i \in 1..Len(out), NEW b \in 1..Len(all), NEW a \in 1..Len(out[i]) PROVE out[i][a] < all[b]
    <3>1. CASE b <= m
      BY <1>6, <3>1 DEF Neat, Behind
    <3>2. CASE ~(b <= m)
      <4>1. out[i][a] < f
        BY DEF Holds
      <4>2. out[i] \in Seq(Nat)
        BY <1>1
      <4>3. out[i][a] \in Nat
        BY <4>2
      <4>4. all[b] \in Nat /\ f <= all[b]
        BY <1>6, <3>2
      <4> QED
        BY <4>1, <4>3, <4>4
    <3> QED
      BY <3>1, <3>2
  <2> QED
    BY <2>1 DEF Behind
<1>9. Neat(out, all)
  BY <1>4, <1>7, <1>8 DEF Neat
<1>10. ASSUME NEW x PROVE Holds(out, all, x) => Holds(out, rest, x) \/ x \in f..l
  <2>1. ASSUME NEW a \in 1..Len(all), x = all[a] PROVE Holds(out, rest, x) \/ x \in f..l
    <3>1. CASE a <= m
      BY <1>6, <2>1, <3>1 DEF Holds
    <3>2. CASE ~(a <= m)
      BY <1>6, <2>1, <3>2
    <3> QED
      BY <3>1, <3>2
  <2> QED
    BY <2>1 DEF Holds
<1>11. ASSUME NEW x PROVE Holds(out, rest, x) \/ x \in f..l => Holds(out, all, x)
  <2>1. ASSUME NEW a \in 1..Len(rest), x = rest[a] PROVE Holds(out, all, x)
    <3>1. a \in 1..Len(all) /\ a <= m
      BY <1>1, <1>4
    <3> QED
      BY <1>5, <2>1, <3>1 DEF Holds
  <2>2. ASSUME x \in f..l PROVE Holds(out, all, x)
    <3> DEFINE a == m + (x - f + 1)
    <3>1. a \in 1..Len(all) /\ ~(a <= m) /\ f + (a - m) - 1 = x
      BY <1>1, <1>4, <2>2
    <3> HIDE DEF a
    <3> QED
      BY <1>6, <3>1 DEF Holds
  <2> QED
    BY <2>1, <2>2 DEF Holds
<1> QED
  BY <1>2, <1>9, <1>10, <1>11 DEF all

\* A region that is joined is kept in order, and less than a segment waits.
LEMMA JoinKeeps ==
  ASSUME NEW out, NEW rest, Neat(out, rest), NEW f \in Nat, NEW l \in Nat, f <= l,
         \A x : Holds(out, rest, x) => x < f
  PROVE  LET j == Join(out, rest \o Span(<<f, l>>)) IN
         /\ Neat(j.out, j.pending) /\ Len(j.pending) < Cut.shortest
         /\ \A x : Holds(j.out, j.pending, x) <=> Holds(out, rest, x) \/ x \in f..l
<1> DEFINE all == rest \o Span(<<f, l>>)
           j == Keep(out \o Full(all), Rest(all))
<1>1. Neat(out, all) /\ \A x : Holds(out, all, x) <=> Holds(out, rest, x) \/ x \in f..l
  BY SpanKeeps
<1> HIDE DEF all
<1>2. /\ Neat(out \o Full(all), Rest(all)) /\ Len(Rest(all)) < Cut.longest
      /\ \A x : Holds(out, all, x) <=> Holds(out \o Full(all), Rest(all), x)
  BY <1>1, CutKeeps
<1>3. /\ Neat(j.out, j.pending) /\ Len(j.pending) < Cut.shortest
      /\ \A x : Holds(out \o Full(all), Rest(all), x) <=> Holds(j.out, j.pending, x)
  BY <1>2, KeepKeeps
<1>4. j = Join(out, all)
  BY DEF Join
<1> HIDE DEF j
<1>5. Neat(j.out, j.pending) /\ Len(j.pending) < Cut.shortest
  BY <1>3
<1>6. \A x : Holds(j.out, j.pending, x) <=> Holds(out, rest, x) \/ x \in f..l
  BY <1>1, <1>2, <1>3
<1> QED
  BY <1>4, <1>5, <1>6 DEF all

\* What the frame i adds to what was cut before it.
CutAt(levels, before, i) ==
  LET Ending == {r \in ActiveRegions(levels) : r[2] = i} IN
  IF Ending = {} THEN before
  ELSE Join(before.out, before.pending \o Span(Padded(CHOOSE r \in Ending : TRUE, Len(levels))))
Uncut == [out |-> <<>>, pending |-> <<>>]
IsCut(C, levels, n) == C = [i \in 0..n |-> IF i = 0 THEN Uncut ELSE CutAt(levels, C[i - 1], i)]
CutOf(levels) == CHOOSE C : IsCut(C, levels, Len(levels))

\* However long a recording is, it can be cut: the function that does it exists.
LEMMA CutExists ==
  ASSUME NEW levels, NEW n \in Nat
  PROVE  \E C : IsCut(C, levels, n)
<1> DEFINE T == {m \in Nat : ~ \E C : IsCut(C, levels, m)}
<1>1. SUFFICES ASSUME T # {} PROVE FALSE
  OBVIOUS
<1>2. PICK m \in T : \A k \in T : m <= k
  <2>1. T \subseteq Nat
    OBVIOUS
  <2> HIDE DEF T
  <2> QED
    BY <1>1, <2>1, Least
<1>3. m # 0
  <2>1. [i \in 0..0 |-> Uncut] = [i \in 0..0 |-> IF i = 0 THEN Uncut ELSE CutAt(levels, [k \in 0..0 |-> Uncut][i - 1], i)]
    OBVIOUS
  <2>2. IsCut([i \in 0..0 |-> Uncut], levels, 0)
    BY <2>1 DEF IsCut
  <2> QED
    BY <1>2, <2>2
<1>4. m - 1 \in Nat /\ m - 1 \notin T
  <2>1. m \in Nat
    OBVIOUS
  <2>2. m - 1 \in Nat /\ ~(m <= m - 1)
    BY <1>3, <2>1
  <2> HIDE DEF T
  <2> QED
    BY <1>2, <2>2
<1>5. PICK C : IsCut(C, levels, m - 1)
  BY <1>4
<1> DEFINE K == [i \in 0..m |-> IF i = 0 THEN Uncut ELSE CutAt(levels, C[i - 1], i)]
<1>6. ASSUME NEW i \in 0..(m - 1) PROVE K[i] = C[i]
  <2>1. i \in 0..m
    BY <1>4
  <2>2. C[i] = IF i = 0 THEN Uncut ELSE CutAt(levels, C[i - 1], i)
    BY <1>5 DEF IsCut
  <2> QED
    BY <2>1, <2>2
<1>7. ASSUME NEW i \in 0..m
      PROVE  (IF i = 0 THEN Uncut ELSE CutAt(levels, C[i - 1], i)) = (IF i = 0 THEN Uncut ELSE CutAt(levels, K[i - 1], i))
  <2>1. CASE i = 0
    BY <2>1
  <2>2. CASE i # 0
    <3>1. i - 1 \in 0..(m - 1)
      BY <1>4, <2>2
    <3>2. K[i - 1] = C[i - 1]
      BY <1>6, <3>1
    <3> HIDE DEF K
    <3> QED
      BY <2>2, <3>2
  <2> QED
    BY <2>1, <2>2
<1>8. K = [i \in 0..m |-> IF i = 0 THEN Uncut ELSE CutAt(levels, C[i - 1], i)]
  OBVIOUS
<1> HIDE DEF K
<1>9. K = [i \in 0..m |-> IF i = 0 THEN Uncut ELSE CutAt(levels, K[i - 1], i)]
  BY <1>7, <1>8
<1> QED
  BY <1>2, <1>9 DEF IsCut

\* The segments are what is cut after the last frame.
LEMMA CutShape ==
  ASSUME NEW levels, Len(levels) \in Nat
  PROVE  /\ Segments(levels) = CutOf(levels)[Len(levels)].out
         /\ CutOf(levels)[0] = Uncut
         /\ \A i \in 1..Len(levels) : CutOf(levels)[i] = CutAt(levels, CutOf(levels)[i - 1], i)
<1> DEFINE n == Len(levels)
<1>1. Segments(levels) = CutOf(levels)[n].out
  BY DEF Segments, CutOf, IsCut, CutAt, Uncut
<1> HIDE DEF n
<1>2. IsCut(CutOf(levels), levels, n)
  <2>1. \E C : IsCut(C, levels, n)
    BY CutExists DEF n
  <2> QED
    BY <2>1 DEF CutOf, n
<1> DEFINE C == CutOf(levels)
<1> HIDE DEF C
<1>3. C = [i \in 0..n |-> IF i = 0 THEN Uncut ELSE CutAt(levels, C[i - 1], i)]
  BY <1>2 DEF IsCut, C
<1>4. n \in Nat
  BY DEF n
<1>5. C[0] = Uncut /\ \A i \in 1..n : C[i] = CutAt(levels, C[i - 1], i)
  <2>1. C[0] = Uncut
    BY <1>3, <1>4
  <2>2. ASSUME NEW i \in 1..n PROVE C[i] = CutAt(levels, C[i - 1], i)
    <3>1. i \in 0..n /\ i # 0
      BY <1>4
    <3>2. C[i] = IF i = 0 THEN Uncut ELSE CutAt(levels, C[i - 1], i)
      BY <1>3, <3>1
    <3> QED
      BY <3>1, <3>2
  <2> QED
    BY <2>1, <2>2
<1> QED
  BY <1>1, <1>5 DEF C, n

\* The frames of a region, with what is added on both sides.
LEMMA PaddedShape ==
  ASSUME NEW n \in Nat, NEW r, r[1] \in 1..n, r[2] \in 1..n, r[1] <= r[2]
  PROVE  \E f, l \in 1..n : /\ Padded(r, n) = <<f, l>> /\ f <= r[1] /\ r[2] <= l /\ l <= r[2] + Cut.pad
                            /\ r[1] - Cut.pad <= f
<1> DEFINE a == r[1]
           b == r[2]
           f == IF 1 <= a - Cut.pad THEN a - Cut.pad ELSE 1
           l == IF n <= b + Cut.pad THEN n ELSE b + Cut.pad
<1>1. Cut.pad \in Nat /\ a \in 1..n /\ b \in 1..n /\ a <= b
  BY Cuts
<1>2. Padded(r, n) = <<Max({1, a - Cut.pad}), Min({n, b + Cut.pad})>>
  BY DEF Padded
<1> HIDE DEF a, b
<1>3. Max({1, a - Cut.pad}) = f
  BY <1>1, MaxTwo
<1>4. Min({n, b + Cut.pad}) = l
  BY <1>1, MinTwo
<1>5. f \in 1..n /\ l \in 1..n /\ f <= a /\ b <= l /\ l <= b + Cut.pad /\ a - Cut.pad <= f
  BY <1>1
<1>6. Padded(r, n) = <<f, l>>
  BY <1>3, <1>4, <1>2
<1> HIDE DEF f, l
<1> QED
  BY <1>5, <1>6 DEF a, b

\* What was cut when frame i is reached: all that was sung in the regions that end
\* there at the latest, and nothing behind them.
CutFits(levels, c, i) ==
  /\ Neat(c.out, c.pending) /\ Len(c.pending) < Cut.shortest
  /\ \A x : Holds(c.out, c.pending, x) =>
       x \in 1..Len(levels) /\ \E r \in ActiveRegions(levels) : r[2] <= i /\ x <= r[2] + Cut.pad
  /\ \A r \in ActiveRegions(levels) : r[2] <= i => \A x \in r[1]..r[2] : Holds(c.out, c.pending, x)

\* Active frames are frames.
LEMMA ActiveShape ==
  ASSUME NEW levels, Len(levels) \in Nat, DOMAIN levels = 1..Len(levels)
  PROVE  Active(levels) \subseteq 1..Len(levels)
  BY DEF Active

\* Where the regions of a recording are.
LEMMA RegionShape ==
  ASSUME NEW levels, Len(levels) \in Nat, DOMAIN levels = 1..Len(levels), NEW r \in ActiveRegions(levels)
  PROVE  /\ r[1] \in 1..Len(levels) /\ r[2] \in 1..Len(levels) /\ r[1] <= r[2]
         /\ \A q \in ActiveRegions(levels) : /\ q[2] < r[2] => q[2] + Cut.pad < r[1] - Cut.pad
                                             /\ q[2] = r[2] => q[1] = r[1]
<1> DEFINE n == Len(levels)
           active == Active(levels)
           kept == Bridge(active)
<1>1. active \subseteq 1..n /\ n \in Nat
  BY ActiveShape
<1> HIDE DEF n, active
<1>2. ASSUME NEW q \in Runs(kept)
      PROVE  /\ q[1] \in 1..n /\ q[2] \in 1..n /\ q[1] <= q[2] /\ q[1] - 1 \notin kept /\ q[1]..q[2] \subseteq kept
  <2>1. q[1] \in active /\ q[2] \in active /\ q[1] <= q[2] /\ q[1] - 1 \notin kept /\ q[1]..q[2] \subseteq kept
    BY <1>1, RunEnds
  <2> QED
    BY <1>1, <2>1
<1>3. ASSUME NEW q \in Runs(kept), NEW s \in Runs(kept), q[2] < s[2] PROVE q[2] + Cut.pad < s[1] - Cut.pad
  BY <1>1, <1>3, RunsApart
<1>4. ASSUME NEW q \in Runs(kept), NEW s \in Runs(kept), q[2] = s[2] PROVE ~(q[1] < s[1])
  <2>1. SUFFICES ASSUME q[1] < s[1] PROVE FALSE
    OBVIOUS
  <2>2. s[1] - 1 \notin q[1]..q[2]
    BY <1>2
  <2>3. q[1] \in 1..n /\ s[1] \in 1..n /\ s[2] \in 1..n /\ s[1] <= s[2]
    BY <1>2
  <2> QED
    BY <1>1, <1>4, <2>1, <2>2, <2>3
<1> HIDE DEF kept
<1>5. r \in Runs(kept)
  BY DEF ActiveRegions, kept, active
<1>6. ASSUME NEW q \in Runs(kept) PROVE /\ q[2] < r[2] => q[2] + Cut.pad < r[1] - Cut.pad
                                        /\ q[2] = r[2] => q[1] = r[1]
  <2>1. q[2] = r[2] => ~(q[1] < r[1]) /\ ~(r[1] < q[1])
    BY <1>4, <1>5
  <2>2. q[1] \in 1..n /\ r[1] \in 1..n
    BY <1>2, <1>5
  <2>3. q[2] < r[2] => q[2] + Cut.pad < r[1] - Cut.pad
    BY <1>3, <1>5
  <2> QED
    BY <2>1, <2>2, <2>3
<1>7. r[1] \in 1..n /\ r[2] \in 1..n /\ r[1] <= r[2]
  BY <1>2, <1>5
<1> QED
  BY <1>6, <1>7 DEF ActiveRegions, kept, active, n

\* A frame keeps what was cut before it in order.
LEMMA CutStep ==
  ASSUME NEW levels, Len(levels) \in Nat, DOMAIN levels = 1..Len(levels),
         NEW i \in 1..Len(levels), NEW c, CutFits(levels, c, i - 1)
  PROVE  CutFits(levels, CutAt(levels, c, i), i)
<1> DEFINE n == Len(levels)
           regions == ActiveRegions(levels)
           Ending == {r \in regions : r[2] = i}
<1>1. n \in Nat /\ i \in 1..n /\ Cut.pad \in Nat
  BY Cuts
<1>2. ASSUME NEW r \in regions
      PROVE  /\ r[1] \in 1..n /\ r[2] \in 1..n /\ r[1] <= r[2]
             /\ \A q \in regions : /\ q[2] < r[2] => q[2] + Cut.pad < r[1] - Cut.pad
                                   /\ q[2] = r[2] => q[1] = r[1]
  BY RegionShape
<1>3. /\ Neat(c.out, c.pending) /\ Len(c.pending) < Cut.shortest
      /\ \A x : Holds(c.out, c.pending, x) => x \in 1..n /\ \E r \in regions : r[2] <= i - 1 /\ x <= r[2] + Cut.pad
      /\ \A r \in regions : r[2] <= i - 1 => \A x \in r[1]..r[2] : Holds(c.out, c.pending, x)
  BY DEF CutFits
<1>4. CutAt(levels, c, i) = IF Ending = {} THEN c ELSE Join(c.out, c.pending \o Span(Padded(CHOOSE r \in Ending : TRUE, n)))
  BY DEF CutAt
<1> HIDE DEF n, regions
<1>5. ASSUME NEW r \in regions PROVE (r[2] <= i - 1 \/ r \in Ending) <=> r[2] <= i
  <2>1. r[2] \in 1..n
    BY <1>2
  <2> QED
    BY <1>1, <2>1
<1>6. CASE Ending = {}
  <2>1. CutAt(levels, c, i) = c
    BY <1>4, <1>6
  <2>2. \A r \in regions : r[2] <= i - 1 <=> r[2] <= i
    BY <1>5, <1>6
  <2> QED
    BY <1>3, <2>1, <2>2 DEF CutFits, n, regions
<1>7. CASE Ending # {}
  <2> DEFINE s == CHOOSE r \in Ending : TRUE
  <2>1. s \in regions /\ s[2] = i
    BY <1>7
  <2> HIDE DEF s
  <2>2. s[1] \in 1..n /\ s[2] \in 1..n /\ s[1] <= s[2]
    BY <1>2, <2>1
  <2>3. PICK f \in 1..n, l \in 1..n :
          Padded(s, n) = <<f, l>> /\ f <= s[1] /\ s[2] <= l /\ l <= s[2] + Cut.pad /\ s[1] - Cut.pad <= f
    BY <1>1, <2>2, PaddedShape
  <2>4. f \in Nat /\ l \in Nat /\ f <= l
    BY <1>1, <2>2, <2>3
  <2>5. ASSUME NEW x, Holds(c.out, c.pending, x) PROVE x < f
    <3>1. PICK r \in regions : r[2] <= i - 1 /\ x <= r[2] + Cut.pad
      BY <1>3, <2>5
    <3>2. r[2] \in 1..n /\ x \in 1..n
      BY <1>2, <1>3, <2>5
    <3>3. r[2] < s[2]
      BY <1>1, <2>1, <3>1, <3>2
    <3>4. r[2] + Cut.pad < s[1] - Cut.pad
      BY <1>2, <2>1, <3>3
    <3>5. x \in Int /\ r[2] \in Int /\ s[1] \in Int /\ f \in Int /\ Cut.pad \in Nat
      BY <1>1, <2>2, <2>4, <3>2, Cuts
    <3>6. s[1] - Cut.pad <= f
      BY <2>3
    <3> QED
      BY <3>1, <3>4, <3>5, <3>6
  <2> DEFINE j == Join(c.out, c.pending \o Span(<<f, l>>))
  <2>6. /\ Neat(j.out, j.pending) /\ Len(j.pending) < Cut.shortest
        /\ \A x : Holds(j.out, j.pending, x) <=> Holds(c.out, c.pending, x) \/ x \in f..l
    BY <1>3, <2>4, <2>5, JoinKeeps
  <2>7. CutAt(levels, c, i) = j
    BY <1>4, <1>7, <2>3 DEF s
  <2> HIDE DEF j
  <2>8. ASSUME NEW x, Holds(j.out, j.pending, x)
        PROVE  x \in 1..n /\ \E r \in regions : r[2] <= i /\ x <= r[2] + Cut.pad
    <3>1. CASE Holds(c.out, c.pending, x)
      <4>1. PICK r \in regions : r[2] <= i - 1 /\ x <= r[2] + Cut.pad
        BY <1>3, <3>1
      <4> QED
        BY <1>3, <1>5, <3>1, <4>1
    <3>2. CASE x \in f..l
      <4>1. x \in 1..n /\ x <= s[2] + Cut.pad /\ s[2] <= i
        BY <1>1, <2>1, <2>2, <2>3, <2>4, <3>2
      <4> QED
        BY <2>1, <4>1
    <3> QED
      BY <2>6, <2>8, <3>1, <3>2
  <2>9. ASSUME NEW r \in regions, r[2] <= i, NEW x \in r[1]..r[2] PROVE Holds(j.out, j.pending, x)
    <3>1. CASE r[2] <= i - 1
      BY <1>3, <2>6, <2>9, <3>1
    <3>2. CASE r \in Ending
      <4>1. r[2] = s[2]
        BY <2>1, <3>2
      <4>2. r[1] = s[1]
        BY <1>2, <2>1, <4>1
      <4>3. x \in f..l
        <5>1. x \in s[1]..s[2]
          BY <2>9, <4>1, <4>2
        <5> QED
          BY <2>2, <2>3, <2>4, <5>1
      <4> QED
        BY <2>6, <4>3
    <3> QED
      BY <1>5, <2>9, <3>1, <3>2
  <2> QED
    BY <2>6, <2>7, <2>8, <2>9 DEF CutFits, n, regions
<1> QED
  BY <1>6, <1>7

\* What the segments of a recording are: long enough, in order, and with all that
\* was sung but less than a segment.
LEMMA SegmentsNeat ==
  ASSUME NEW levels, Len(levels) \in Nat, DOMAIN levels = 1..Len(levels)
  PROVE  \E rest : /\ Neat(Segments(levels), rest) /\ Len(rest) < Cut.shortest
                   /\ \A x \in Active(levels) : Holds(Segments(levels), rest, x)
<1> DEFINE n == Len(levels)
           C == CutOf(levels)
           T == {i \in 0..n : ~CutFits(levels, C[i], i)}
<1>1. n \in Nat /\ Active(levels) \subseteq 1..n
  BY ActiveShape
<1>2. Segments(levels) = C[n].out /\ C[0] = Uncut /\ \A i \in 1..n : C[i] = CutAt(levels, C[i - 1], i)
  BY CutShape
<1>3. CutFits(levels, Uncut, 0)
  <2>1. Uncut.out = <<>> /\ Uncut.pending = <<>>
    BY DEF Uncut
  <2>2. Neat(<<>>, <<>>) /\ Len(<<>>) < Cut.shortest
    BY Cuts DEF Neat, Lengths, InTurn, Behind, Rising
  <2>3. \A x : ~Holds(<<>>, <<>>, x)
    BY DEF Holds
  <2>4. \A r \in ActiveRegions(levels) : ~(r[2] <= 0)
    <3>1. ASSUME NEW r \in ActiveRegions(levels) PROVE ~(r[2] <= 0)
      <4>1. r[2] \in 1..n
        BY RegionShape
      <4> QED
        BY <1>1, <4>1
    <3> QED
      BY <3>1
  <2> QED
    BY <2>1, <2>2, <2>3, <2>4 DEF CutFits
<1> HIDE DEF C, n
<1>4. T = {}
  <2>1. SUFFICES ASSUME T # {} PROVE FALSE
    OBVIOUS
  <2>2. PICK i \in T : \A k \in T : i <= k
    <3>1. T \subseteq Nat
      BY <1>1
    <3> HIDE DEF T
    <3> QED
      BY <2>1, <3>1, Least
  <2>3. i # 0
    BY <1>2, <1>3, <2>2
  <2>4. i \in 1..n /\ i - 1 \in 0..n /\ ~(i <= i - 1)
    BY <1>1, <2>2, <2>3
  <2>5. CutFits(levels, C[i - 1], i - 1)
    BY <2>2, <2>4
  <2>6. CutFits(levels, CutAt(levels, C[i - 1], i), i)
    BY <2>4, <2>5, CutStep DEF n
  <2> QED
    BY <1>2, <2>2, <2>4, <2>6
<1>5. CutFits(levels, C[n], n)
  BY <1>1, <1>4
<1>6. ASSUME NEW x \in Active(levels) PROVE Holds(C[n].out, C[n].pending, x)
  <2> DEFINE kept == Bridge(Active(levels))
  <2>1. kept \subseteq 1..n /\ x \in kept
    BY <1>1, BridgeKeeps
  <2>2. PICK r \in Runs(kept) : r[1] <= x /\ x <= r[2]
    BY <1>1, <2>1, RunAround
  <2>3. r \in ActiveRegions(levels)
    BY DEF ActiveRegions
  <2>4. r[1] \in 1..n /\ r[2] \in 1..n
    BY <2>3, RegionShape DEF n
  <2>5. r[2] <= n /\ x \in r[1]..r[2]
    BY <1>1, <2>1, <2>2, <2>4
  <2> QED
    BY <1>5, <2>3, <2>5 DEF CutFits
<1> QED
  BY <1>2, <1>5, <1>6 DEF CutFits

\* What is joined of the first i of some sequences: all of them, in this order.
Ahead(seqs, k, a, l, b) == Before(k, a, l, b) /\ a \in 1..Len(seqs[k]) /\ b \in 1..Len(seqs[l])
Joined(F, seqs, i) ==
  /\ \A p \in 1..Len(F) : \E k \in 1..i : \E a \in 1..Len(seqs[k]) : F[p] = seqs[k][a]
  /\ \A k \in 1..i : \A a \in 1..Len(seqs[k]) : \E p \in 1..Len(F) : F[p] = seqs[k][a]
  /\ \A p, q \in 1..Len(F) : p < q =>
       \E k, l \in 1..i : \E a, b \in Nat : Ahead(seqs, k, a, l, b) /\ F[p] = seqs[k][a] /\ F[q] = seqs[l][b]

\* One sequence more.
LEMMA JoinedStep ==
  ASSUME NEW X, NEW n \in Nat, NEW i \in 1..n, NEW seqs, \A k \in 1..n : seqs[k] \in Seq(X),
         NEW F \in Seq(X), Joined(F, seqs, i - 1)
  PROVE  F \o seqs[i] \in Seq(X) /\ Joined(F \o seqs[i], seqs, i)
<1> DEFINE s == seqs[i]
           G == F \o s
           m == Len(F)
<1>1. s \in Seq(X) /\ m \in Nat /\ Len(s) \in Nat
  OBVIOUS
<1>2. G \in Seq(X) /\ Len(G) = m + Len(s) /\ DOMAIN G = 1..(m + Len(s))
  BY <1>1
<1>3. \A p \in 1..m : G[p] = F[p]
  BY <1>1
<1>4. \A a \in 1..Len(s) : G[m + a] = s[a]
  BY <1>1
<1> HIDE DEF G, m, s
<1>5. ASSUME NEW p \in 1..Len(G)
      PROVE  p \in 1..m \/ \E a \in 1..Len(s) : p = m + a
  <2>1. CASE p <= m
    BY <1>1, <1>2, <2>1
  <2>2. CASE ~(p <= m)
    <3>1. p - m \in 1..Len(s) /\ p = m + (p - m)
      BY <1>1, <1>2, <2>2
    <3> QED
      BY <3>1
  <2> QED
    BY <2>1, <2>2
<1>6. \A a \in 1..Len(s) : m + a \in 1..Len(G) /\ a \in Nat
  BY <1>1, <1>2
<1>7. \A p \in 1..m : p \in 1..Len(G)
  BY <1>1, <1>2
<1>8. i \in 1..i /\ \A k \in 1..(i - 1) : k \in 1..i /\ k < i
  OBVIOUS
<1>9. ASSUME NEW p \in 1..Len(G) PROVE \E k \in 1..i : \E a \in 1..Len(seqs[k]) : G[p] = seqs[k][a]
  <2>1. CASE p \in 1..m
    <3>1. PICK k \in 1..(i - 1) : \E a \in 1..Len(seqs[k]) : F[p] = seqs[k][a]
      BY <2>1 DEF Joined, m
    <3> QED
      BY <1>3, <1>8, <2>1, <3>1
  <2>2. CASE \E a \in 1..Len(s) : p = m + a
    BY <1>4, <1>8, <2>2 DEF s
  <2> QED
    BY <1>5, <2>1, <2>2
<1>10. ASSUME NEW k \in 1..i, NEW a \in 1..Len(seqs[k]) PROVE \E p \in 1..Len(G) : G[p] = seqs[k][a]
  <2>1. CASE k = i
    BY <1>4, <1>6, <2>1 DEF s
  <2>2. CASE k # i
    <3>1. k \in 1..(i - 1)
      BY <2>2
    <3>2. PICK p \in 1..m : F[p] = seqs[k][a]
      BY <3>1 DEF Joined, m
    <3> QED
      BY <1>3, <1>7, <3>2
  <2> QED
    BY <2>1, <2>2
<1>11. ASSUME NEW p \in 1..Len(G), NEW q \in 1..Len(G), p < q
       PROVE  \E k, l \in 1..i : \E a, b \in Nat : Ahead(seqs, k, a, l, b) /\ G[p] = seqs[k][a] /\ G[q] = seqs[l][b]
  <2>1. CASE p \in 1..m /\ q \in 1..m
    <3>1. PICK k, l \in 1..(i - 1) :
            \E a, b \in Nat : Ahead(seqs, k, a, l, b) /\ F[p] = seqs[k][a] /\ F[q] = seqs[l][b]
      BY <1>11, <2>1 DEF Joined, m
    <3>2. k \in 1..i /\ l \in 1..i
      BY <1>8
    <3> QED
      BY <1>3, <2>1, <3>1, <3>2
  <2>2. CASE p \in 1..m /\ \E b \in 1..Len(s) : q = m + b
    <3>1. PICK k \in 1..(i - 1) : \E a \in 1..Len(seqs[k]) : F[p] = seqs[k][a]
      BY <2>2 DEF Joined, m
    <3>2. PICK a \in 1..Len(seqs[k]) : F[p] = seqs[k][a]
      BY <3>1
    <3>3. PICK b \in 1..Len(s) : q = m + b
      BY <2>2
    <3>4. seqs[k] \in Seq(X)
      <4>1. k \in 1..n
        OBVIOUS
      <4> QED
        BY <4>1
    <3>5. a \in Nat /\ b \in Nat
      BY <1>1, <3>4
    <3>6. Ahead(seqs, k, a, i, b)
      BY <1>8, <3>2, <3>3 DEF Ahead, Before, s
    <3>7. G[p] = seqs[k][a]
      BY <1>3, <2>2, <3>2
    <3>8. G[q] = seqs[i][b]
      BY <1>4, <3>3 DEF s
    <3>9. k \in 1..i
      BY <1>8
    <3> QED
      BY <1>8, <3>5, <3>6, <3>7, <3>8, <3>9
  <2>3. CASE \E a \in 1..Len(s) : p = m + a
    <3>1. PICK a \in 1..Len(s) : p = m + a
      BY <2>3
    <3>2. ~(q \in 1..m)
      BY <1>1, <1>2, <1>11, <3>1
    <3>3. PICK b \in 1..Len(s) : q = m + b
      BY <1>5, <3>2
    <3>4. a \in Nat /\ b \in Nat /\ a < b
      BY <1>1, <1>11, <3>1, <3>3
    <3>5. Ahead(seqs, i, a, i, b)
      BY <3>4 DEF Ahead, Before, s
    <3>6. G[p] = seqs[i][a] /\ G[q] = seqs[i][b]
      BY <1>4, <3>1, <3>3 DEF s
    <3> QED
      BY <1>8, <3>4, <3>5, <3>6
  <2> QED
    BY <1>5, <2>1, <2>2, <2>3
<1> QED
  BY <1>2, <1>9, <1>10, <1>11 DEF Joined, G, s

\* What FlattenSeq computes: F[i] is what the first i of them are joined to.
IsFlat(F, seqs, n) == F = [i \in 1..n |-> IF i = 1 THEN seqs[i] ELSE F[i - 1] \o seqs[i]]
FlatOf(seqs) == CHOOSE F : IsFlat(F, seqs, Len(seqs))

\* However many sequences there are, they can be joined.
LEMMA FlatExists ==
  ASSUME NEW seqs, NEW n \in Nat
  PROVE  \E F : IsFlat(F, seqs, n)
<1> DEFINE T == {m \in Nat : ~ \E F : IsFlat(F, seqs, m)}
<1>1. SUFFICES ASSUME T # {} PROVE FALSE
  OBVIOUS
<1>2. PICK m \in T : \A k \in T : m <= k
  <2>1. T \subseteq Nat
    OBVIOUS
  <2> HIDE DEF T
  <2> QED
    BY <1>1, <2>1, Least
<1>3. m # 0
  <2> DEFINE E == [i \in {} |-> seqs]
  <2>1. E = [i \in 1..0 |-> IF i = 1 THEN seqs[i] ELSE E[i - 1] \o seqs[i]]
    <3>1. 1..0 = {}
      OBVIOUS
    <3> QED
      BY <3>1
  <2>2. IsFlat(E, seqs, 0)
    BY <2>1 DEF IsFlat
  <2> QED
    BY <1>2, <2>2
<1>4. m - 1 \in Nat /\ m - 1 \notin T
  <2>1. m \in Nat
    OBVIOUS
  <2>2. m - 1 \in Nat /\ ~(m <= m - 1)
    BY <1>3, <2>1
  <2> HIDE DEF T
  <2> QED
    BY <1>2, <2>2
<1>5. PICK F : IsFlat(F, seqs, m - 1)
  BY <1>4
<1> DEFINE K == [i \in 1..m |-> IF i = 1 THEN seqs[i] ELSE F[i - 1] \o seqs[i]]
<1>6. ASSUME NEW i \in 1..(m - 1) PROVE K[i] = F[i]
  <2>1. i \in 1..m
    BY <1>4
  <2>2. F[i] = IF i = 1 THEN seqs[i] ELSE F[i - 1] \o seqs[i]
    BY <1>5 DEF IsFlat
  <2> QED
    BY <2>1, <2>2
<1>7. ASSUME NEW i \in 1..m
      PROVE  (IF i = 1 THEN seqs[i] ELSE F[i - 1] \o seqs[i]) = (IF i = 1 THEN seqs[i] ELSE K[i - 1] \o seqs[i])
  <2>1. CASE i = 1
    BY <2>1
  <2>2. CASE i # 1
    <3>1. i - 1 \in 1..(m - 1)
      BY <1>4, <2>2
    <3>2. K[i - 1] = F[i - 1]
      BY <1>6, <3>1
    <3> HIDE DEF K
    <3> QED
      BY <2>2, <3>2
  <2> QED
    BY <2>1, <2>2
<1>8. K = [i \in 1..m |-> IF i = 1 THEN seqs[i] ELSE F[i - 1] \o seqs[i]]
  OBVIOUS
<1> HIDE DEF K
<1>9. K = [i \in 1..m |-> IF i = 1 THEN seqs[i] ELSE K[i - 1] \o seqs[i]]
  BY <1>7, <1>8
<1> QED
  BY <1>2, <1>9 DEF IsFlat

\* Joining sequences keeps every element and the order.
LEMMA Flattened ==
  ASSUME NEW X, NEW seqs \in Seq(Seq(X)), Len(seqs) # 0
  PROVE  FlattenSeq(seqs) \in Seq(X) /\ Joined(FlattenSeq(seqs), seqs, Len(seqs))
<1> DEFINE n == Len(seqs)
           F == FlatOf(seqs)
<1>1. n \in Nat /\ n # 0 /\ \A k \in 1..n : seqs[k] \in Seq(X)
  OBVIOUS
<1>2. FlattenSeq(seqs) = F[n]
  BY DEF FlattenSeq, FlatOf, IsFlat
<1>3. IsFlat(F, seqs, n)
  <2>1. \E G : IsFlat(G, seqs, n)
    BY <1>1, FlatExists
  <2> QED
    BY <2>1 DEF FlatOf
<1> HIDE DEF n, F
<1>4. F[1] = seqs[1] /\ \A i \in 1..n : i # 1 => F[i] = F[i - 1] \o seqs[i]
  <2>1. \A i \in 1..n : F[i] = IF i = 1 THEN seqs[i] ELSE F[i - 1] \o seqs[i]
    BY <1>3 DEF IsFlat
  <2>2. 1 \in 1..n
    BY <1>1
  <2> QED
    BY <2>1, <2>2
<1> DEFINE Good(i) == F[i] \in Seq(X) /\ Joined(F[i], seqs, i)
           T == {i \in 1..n : ~Good(i)}
<1>5. Good(1)
  <2>1. <<>> \in Seq(X) /\ Joined(<<>>, seqs, 1 - 1)
    BY DEF Joined
  <2>2. 1 \in 1..n
    BY <1>1
  <2>3. <<>> \o seqs[1] \in Seq(X) /\ Joined(<<>> \o seqs[1], seqs, 1)
    BY <1>1, <2>1, <2>2, JoinedStep
  <2>4. <<>> \o seqs[1] = seqs[1]
    BY <1>1, <2>2
  <2> QED
    BY <1>4, <2>3, <2>4
<1>6. T = {}
  <2>1. SUFFICES ASSUME T # {} PROVE FALSE
    OBVIOUS
  <2>2. PICK i \in T : \A k \in T : i <= k
    <3>1. T \subseteq Nat
      BY <1>1
    <3> HIDE DEF T
    <3> QED
      BY <2>1, <3>1, Least
  <2>3. i \in 1..n /\ i # 1
    BY <1>5, <2>2
  <2>4. i - 1 \in 1..n /\ ~(i <= i - 1)
    BY <1>1, <2>3
  <2>5. Good(i - 1)
    <3> HIDE DEF Good
    <3> QED
      BY <2>2, <2>4
  <2>6. F[i - 1] \o seqs[i] \in Seq(X) /\ Joined(F[i - 1] \o seqs[i], seqs, i)
    BY <1>1, <2>3, <2>5, JoinedStep
  <2> QED
    BY <1>4, <2>2, <2>3, <2>6
<1>7. n \in 1..n
  BY <1>1
<1>8. Good(n)
  <2> HIDE DEF Good
  <2> QED
    BY <1>6, <1>7
<1> QED
  BY <1>2, <1>8 DEF n

\* Some of the elements of a sequence are at most as many as it is long.
LEMMA SomeOf ==
  ASSUME NEW s \in Seq(Nat), NEW T, \A x \in T : \E a \in 1..Len(s) : x = s[a]
  PROVE  Cardinality(T) <= Len(s) /\ Cardinality(T) \in Nat
<1> DEFINE U == {s[a] : a \in 1..Len(s)}
<1>1. Len(s) \in Nat /\ T \in SUBSET U
  OBVIOUS
<1>2. s \in Surjection(1..Len(s), U)
  BY DEF Surjection
<1> HIDE DEF U
<1>3. IsFiniteSet(1..Len(s)) /\ Cardinality(1..Len(s)) = Len(s)
  <2> DEFINE n == Len(s)
  <2>1. n \in Int /\ 1 \in Int /\ n >= 0
    BY <1>1
  <2> HIDE DEF n
  <2>2. IsFiniteSet(1..n) /\ Cardinality(1..n) = IF 1 > n THEN 0 ELSE n - 1 + 1
    BY <2>1, FS_Interval
  <2>3. Cardinality(1..n) = n
    BY <2>1, <2>2
  <2> QED
    BY <2>2, <2>3 DEF n
<1>4. IsFiniteSet(U) /\ Cardinality(U) <= Len(s)
  BY <1>2, <1>3, FS_Surjection
<1>5. IsFiniteSet(T) /\ Cardinality(T) <= Cardinality(U)
  BY <1>1, <1>4, FS_Subset
<1> QED
  BY <1>1, <1>4, <1>5, FS_CardinalityType

\* A recording, cleaned and at the rate of the training.
Cleaned(rec) == Resample(ProductionCleaner(rec), TARGET)

\* Its frames are a sequence, whichever rate it had.
LEMMA CleanedShape ==
  ASSUME NEW rec \in Recording
  PROVE  Len(Cleaned(rec).levels) \in Nat /\ DOMAIN Cleaned(rec).levels = 1..Len(Cleaned(rec).levels)
<1> DEFINE c == ProductionCleaner(rec)
<1>1. c.levels \in Seq(Int) /\ c.rate \in 1..2 /\ c \in Recording
  BY DEF ProductionCleaner, Recording, TARGET
<1> HIDE DEF c
<1>2. CASE c.rate = TARGET
  <2>1. Cleaned(rec) = c
    BY <1>2 DEF Cleaned, Resample, c
  <2> QED
    BY <1>1, <2>1
<1>3. CASE c.rate # TARGET
  <2> DEFINE n == Len(c.levels)
             m == (n * TARGET) \div c.rate
             slow == [i \in 1..m |-> c.levels[1 + ((i - 1) * (n - 1)) \div (m - 1)]]
  <2>1. Cleaned(rec) = [c EXCEPT !.rate = TARGET, !.levels = slow]
    BY <1>3 DEF Cleaned, Resample, c
  <2>2. m \in Nat
    <3>1. c.rate = 1 /\ n \in Nat
      BY <1>1, <1>3 DEF TARGET
    <3>2. ASSUME NEW k \in Nat PROVE k \div 1 \in Nat
      BY <3>2
    <3>3. n * TARGET \in Nat
      BY <3>1 DEF TARGET
    <3> QED
      BY <3>1, <3>2, <3>3
  <2> HIDE DEF m
  <2>3. DOMAIN slow = 1..m
    OBVIOUS
  <2> HIDE DEF slow
  <2>4. Cleaned(rec).levels = slow
    BY <1>1, <2>1 DEF Recording
  <2>5. Len(slow) = m
    BY <2>2, <2>3
  <2> QED
    BY <2>2, <2>3, <2>4, <2>5
<1> QED
  BY <1>2, <1>3

(***************************************************************************)
(* However many recordings there are and whatever is sung in them, they    *)
(* are cut cleanly: every segment has a length the trainer takes, what is  *)
(* cut from a recording is in the order it was sung and nothing twice, and *)
(* less than a segment of what was sung is left out (_segments and build). *)
(***************************************************************************)
THEOREM DatasetIsClean ==
  ASSUME NEW recordings \in Seq(Recording) \ {<<>>}
  PROVE  CutCleanly(recordings, Dataset(recordings))
<1> DEFINE n == Len(recordings)
           levels(k) == Cleaned(recordings[k]).levels
           frames(k) == Segments(levels(k))
           seg(k, j) == Segment(k, Cleaned(recordings[k]), frames(k)[j])
           X == UNION {{seg(k, j) : j \in 1..Len(frames(k))} : k \in 1..n}
           seqs == [k \in 1..n |-> CutUp(k, Cleaned(recordings[k]), frames(k))]
           D == Dataset(recordings)
<1>1. n \in Nat /\ n # 0 /\ DOMAIN recordings = 1..n /\ \A k \in 1..n : recordings[k] \in Recording
  OBVIOUS
<1>2. D = FlattenSeq(seqs)
  BY <1>1 DEF Dataset, CutUpClean, Cleaned
<1> HIDE DEF n, D
<1>3. ASSUME NEW k \in 1..n
      PROVE  \E rest : /\ Neat(frames(k), rest) /\ Len(rest) < Cut.shortest
                       /\ \A x \in Active(levels(k)) : Holds(frames(k), rest, x)
  BY <1>1, CleanedShape, SegmentsNeat
<1> HIDE DEF levels
<1>4. ASSUME NEW k \in 1..n PROVE frames(k) \in Seq(Seq(Nat))
  BY <1>3 DEF Neat
<1> HIDE DEF frames
<1>5. ASSUME NEW k \in 1..n PROVE DOMAIN frames(k) = 1..Len(frames(k)) /\ Len(frames(k)) \in Nat
  <2> DEFINE S == Seq(Nat)
  <2>1. frames(k) \in Seq(S)
    BY <1>4
  <2> HIDE DEF S
  <2> QED
    BY <2>1
<1>6. ASSUME NEW k \in 1..n PROVE seqs[k] = [j \in 1..Len(frames(k)) |-> seg(k, j)]
  BY <1>5 DEF CutUp
<1>7. ASSUME NEW k \in 1..n, NEW j \in 1..Len(frames(k)) PROVE seg(k, j).of = k /\ seg(k, j).frames = frames(k)[j]
  BY DEF Segment
<1>8. ASSUME NEW k \in 1..n, NEW j \in 1..Len(frames(k)) PROVE seg(k, j) \in X
  OBVIOUS
<1> HIDE DEF seg, X
<1>9. ASSUME NEW k \in 1..n
      PROVE  /\ seqs[k] \in Seq(X) /\ Len(seqs[k]) = Len(frames(k))
             /\ \A j \in 1..Len(frames(k)) : seqs[k][j].of = k /\ seqs[k][j].frames = frames(k)[j]
  <2>1. seqs[k] = [j \in 1..Len(frames(k)) |-> seg(k, j)]
    BY <1>6
  <2>2. \A j \in 1..Len(frames(k)) : seg(k, j) \in X
    BY <1>8
  <2>3. Len(frames(k)) \in Nat
    BY <1>5
  <2> HIDE DEF seqs
  <2>4. seqs[k] \in [1..Len(frames(k)) -> X]
    BY <2>1, <2>2
  <2>5. seqs[k] \in Seq(X) /\ Len(seqs[k]) = Len(frames(k))
    BY <2>3, <2>4
  <2>6. \A j \in 1..Len(frames(k)) : seqs[k][j] = seg(k, j)
    BY <2>1
  <2> QED
    BY <1>7, <2>5, <2>6
<1>10. seqs \in Seq(Seq(X)) /\ Len(seqs) = n
  <2> DEFINE S == Seq(X)
  <2>1. \A k \in 1..n : seqs[k] \in S
    BY <1>9
  <2>2. DOMAIN seqs = 1..n /\ seqs = [k \in 1..n |-> seqs[k]]
    OBVIOUS
  <2> HIDE DEF S, seqs
  <2>3. seqs \in [1..n -> S]
    BY <2>1, <2>2
  <2>4. seqs \in Seq(S) /\ Len(seqs) = n
    BY <1>1, <2>3
  <2> QED
    BY <2>4 DEF S
<1> HIDE DEF seqs
<1>11. D \in Seq(X) /\ Joined(D, seqs, n)
  BY <1>1, <1>2, <1>10, Flattened
<1>12. DOMAIN D = 1..Len(D) /\ Len(D) \in Nat
  BY <1>11
\* Where a segment comes from.
<1>13. ASSUME NEW p \in 1..Len(D)
       PROVE  \E k \in 1..n : \E a \in 1..Len(frames(k)) : D[p].of = k /\ D[p].frames = frames(k)[a]
  <2>1. PICK k \in 1..n : \E a \in 1..Len(seqs[k]) : D[p] = seqs[k][a]
    BY <1>11 DEF Joined
  <2>2. PICK a \in 1..Len(seqs[k]) : D[p] = seqs[k][a]
    BY <2>1
  <2>3. a \in 1..Len(frames(k))
    BY <1>9
  <2> QED
    BY <1>9, <2>2, <2>3
<1>14. ASSUME NEW k \in 1..n, NEW a \in 1..Len(frames(k))
       PROVE  Len(frames(k)[a]) \in Cut.shortest..Cut.longest /\ DOMAIN frames(k)[a] = 1..Len(frames(k)[a])
  <2>1. Lengths(frames(k))
    BY <1>3 DEF Neat
  <2>2. frames(k)[a] \in Seq(Nat)
    <3> DEFINE S == Seq(Nat)
    <3>1. frames(k) \in Seq(S)
      BY <1>4
    <3> HIDE DEF S
    <3>2. frames(k)[a] \in S
      BY <3>1
    <3> QED
      BY <3>2 DEF S
  <2> QED
    BY <2>1, <2>2 DEF Lengths
<1>15. ASSUME NEW k \in 1..n PROVE InTurn(frames(k))
  BY <1>3 DEF Neat
<1>16. \A s \in Range(D) : Len(s.frames) \in Cut.shortest..Cut.longest
  <2>1. ASSUME NEW p \in 1..Len(D) PROVE Len(D[p].frames) \in Cut.shortest..Cut.longest
    BY <1>13, <1>14
  <2> QED
    BY <1>12, <2>1 DEF Range
<1>17. ASSUME NEW i \in DOMAIN D, NEW j \in DOMAIN D, NEW a \in DOMAIN D[i].frames, NEW b \in DOMAIN D[j].frames,
              D[i].of = D[j].of /\ (i < j \/ (i = j /\ a < b))
       PROVE  D[i].frames[a] < D[j].frames[b]
  <2>1. i \in 1..Len(D) /\ j \in 1..Len(D)
    BY <1>12
  <2>2. CASE i < j
    <3>1. PICK k, l \in 1..n : \E c, d \in Nat : Ahead(seqs, k, c, l, d) /\ D[i] = seqs[k][c] /\ D[j] = seqs[l][d]
      BY <1>11, <2>1, <2>2 DEF Joined
    <3>2. PICK c, d \in Nat : Ahead(seqs, k, c, l, d) /\ D[i] = seqs[k][c] /\ D[j] = seqs[l][d]
      BY <3>1
    <3>3. c \in 1..Len(frames(k)) /\ d \in 1..Len(frames(l)) /\ Before(k, c, l, d)
      BY <1>9, <3>2 DEF Ahead
    <3>4. D[i].of = k /\ D[i].frames = frames(k)[c] /\ D[j].of = l /\ D[j].frames = frames(l)[d]
      BY <1>9, <3>2, <3>3
    <3>5. k = l /\ c < d
      <4>1. k = l
        BY <1>17, <3>4
      <4>2. k \in Int
        BY <1>1
      <4> QED
        BY <3>3, <4>1, <4>2 DEF Before
    <3>6. a \in 1..Len(frames(k)[c]) /\ b \in 1..Len(frames(k)[d])
      BY <1>14, <3>3, <3>4, <3>5
    <3>7. frames(k)[c][a] < frames(k)[d][b]
      BY <1>15, <3>3, <3>5, <3>6 DEF InTurn, Before
    <3> QED
      BY <3>4, <3>5, <3>7
  <2>3. CASE i = j /\ a < b
    <3>1. PICK k \in 1..n : \E c \in 1..Len(frames(k)) : D[i].of = k /\ D[i].frames = frames(k)[c]
      BY <1>13, <2>1
    <3>2. PICK c \in 1..Len(frames(k)) : D[i].frames = frames(k)[c]
      BY <3>1
    <3>3. a \in 1..Len(frames(k)[c]) /\ b \in 1..Len(frames(k)[c])
      BY <1>14, <2>3, <3>2
    <3>4. frames(k)[c][a] < frames(k)[c][b]
      BY <1>15, <2>3, <3>3 DEF InTurn, Before
    <3> QED
      BY <2>3, <3>2, <3>4
  <2> QED
    BY <1>17, <2>2, <2>3
<1>18. ASSUME NEW k \in 1..n
       PROVE  Cardinality(Active(levels(k)) \ UNION {Range(D[j].frames) : j \in {i \in DOMAIN D : D[i].of = k}}) < Cut.shortest
  <2> DEFINE lost == Active(levels(k)) \ UNION {Range(D[j].frames) : j \in {i \in DOMAIN D : D[i].of = k}}
  <2>1. PICK rest : /\ Neat(frames(k), rest) /\ Len(rest) < Cut.shortest
                    /\ \A x \in Active(levels(k)) : Holds(frames(k), rest, x)
    BY <1>3
  <2>2. rest \in Seq(Nat)
    BY <2>1 DEF Neat
  <2>3. ASSUME NEW x \in lost PROVE \E a \in 1..Len(rest) : x = rest[a]
    <3>1. SUFFICES ASSUME NEW j \in 1..Len(frames(k)), NEW a \in 1..Len(frames(k)[j]), x = frames(k)[j][a] PROVE FALSE
      BY <2>1 DEF Holds
    <3>2. j \in 1..Len(seqs[k])
      BY <1>9
    <3>3. PICK p \in 1..Len(D) : D[p] = seqs[k][j]
      BY <1>11, <3>2 DEF Joined
    <3>4. p \in DOMAIN D /\ D[p].of = k /\ D[p].frames = frames(k)[j]
      <4>1. p \in DOMAIN D
        BY <1>12
      <4>2. seqs[k][j].of = k /\ seqs[k][j].frames = frames(k)[j]
        BY <1>9
      <4> QED
        BY <3>3, <4>1, <4>2
    <3>5. x \in Range(D[p].frames)
      BY <1>14, <3>1, <3>4 DEF Range
    <3> QED
      BY <3>4, <3>5
  <2> HIDE DEF lost
  <2>4. Cardinality(lost) <= Len(rest) /\ Cardinality(lost) \in Nat
    BY <2>2, <2>3, SomeOf
  <2>5. Cardinality(lost) < Cut.shortest
    <3>1. Len(rest) \in Nat /\ Cut.shortest \in Nat /\ Len(rest) < Cut.shortest
      BY <2>1, <2>2, Cuts
    <3> QED
      BY <2>4, <3>1
  <2> QED
    BY <2>5 DEF lost
<1> QED
  BY <1>1, <1>16, <1>17, <1>18 DEF CutCleanly, D, levels, Cleaned

-----------------------------------------------------------------------------

\* A worker trains on material that passed both checks and was cut cleanly, with
\* whole programs.
THEOREM OnlyPassedIsTrainedOn ==
  ASSUME Recorded
  PROVE  Spec => []TrainsOnPassed
<1>0. Passed \subseteq Cleanly
  BY MaterialAssumption, DatasetIsClean DEF Passed, Sung, Material, Cleanly
<1>1. ASSUME IInv, NEW p \in Pids, trainer[p] \in {"boot", "hello"} \cup Ensures \cup Trains
      PROVE  dataset \in Passed \cap Cleanly
  BY <1>0, <1>1 DEF IInv, MaterialKnown, WorkerKnown, Alive, Underway, Trained, Ensures, Trains
<1>2. ASSUME IInv, NEW p \in Pids, trainer[p] \in Trains PROVE runtime.source /\ runtime.models
  BY <1>2 DEF IInv, ProgramsKnown
<1>3. IInv => TrainsOnPassed
  BY <1>1, <1>2 DEF TrainsOnPassed
<1> QED
  BY <1>3, Invariance, PTL

\* A record that says ready means that the voice is in the library: the worker
\* saves after it has published, and who saves later knows of it.
THEOREM ReadyIsTrue == ASSUME Recorded PROVE Spec => []ReadyMeansVoice
<1>1. IInv => ReadyMeansVoice
  BY DEF IInv, MaterialKnown, ReadyMeansVoice
<1> QED
  BY <1>1, Invariance, PTL
================================================================================
