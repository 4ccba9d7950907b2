------------------------ MODULE UpdateInstallProofs ------------------------
(***************************************************************************)
(* A failed update leaves the installation as it found it, for any set of  *)
(* files, any releases and any number of disturbances.                     *)
(***************************************************************************)
EXTENDS UpdateInstall, TLAPS

\* The inductive invariant.
IInv == TypeOK /\ Attempt /\ Undoable

\* Every release number and every mark of a damaged file is a content.
LEMMA NumbersAreContent == Versions \subseteq Content /\ 0 \in Content /\ Absent \in Content /\ Torn \in Content
  BY ShipsAssumption DEF Versions, Content, Absent, Torn

\* The invariant holds of a fresh installation.
LEMMA InitIInv == Init => IInv
<1> SUFFICES ASSUME Init PROVE IInv
  OBVIOUS
<1> USE ShipsAssumption, FilesAssumption, FaultsAssumption, NumbersAreContent
<1>1. Clean(0) \in Image /\ Nothing \in Image
  BY DEF Clean, Nothing, Image
<1>2. NoDir \in Dir /\ NoLog \in Log
  BY DEF NoDir, Dir, NoLog, Log
<1>3. TypeOK
  <2>1. install \in Image /\ before \in Image
    BY <1>1 DEF Init
  <2>2. staged \in [Versions -> Dir] /\ receipt \in [Versions -> Log] /\ backup \in [Versions -> Image]
    BY <1>1, <1>2 DEF Init
  <2>3. done \in [replaced : SUBSET Files, created : SUBSET Files]
    BY DEF Init
  <2>4. running \in BOOLEAN
    BY DEF Init
  <2> QED
    BY <2>1, <2>2, <2>3, <2>4 DEF Init, TypeOK, Idle, NotStaging
<1>4. Attempt /\ Undoable
  BY DEF Init, Attempt, Undoable, Idle, NotStaging
<1> QED
  BY <1>3, <1>4 DEF IInv

\* A staging directory stays one when a file comes or goes.
LEMMA DirsStayDirs ==
  ASSUME TypeOK, NEW v \in Versions, NEW F \in SUBSET Files, NEW b \in BOOLEAN
  PROVE  /\ staged[v].files \in SUBSET Files
         /\ staged[v].dir \in BOOLEAN
         /\ [staged EXCEPT ![v].files = F] \in [Versions -> Dir]
         /\ [staged EXCEPT ![v].dir = b] \in [Versions -> Dir]
         /\ [staged EXCEPT ![v] = [dir |-> b, files |-> F]] \in [Versions -> Dir]
<1>1. staged[v] \in Dir
  BY DEF TypeOK
<1>2. [staged[v] EXCEPT !.files = F] \in Dir /\ [staged[v] EXCEPT !.dir = b] \in Dir
  BY <1>1 DEF Dir
<1>3. [staged EXCEPT ![v] = [staged[v] EXCEPT !.files = F]] \in [Versions -> Dir]
  BY <1>2 DEF TypeOK
<1>4. [staged EXCEPT ![v] = [staged[v] EXCEPT !.dir = b]] \in [Versions -> Dir]
  BY <1>2 DEF TypeOK
<1>5. [staged EXCEPT ![v] = [dir |-> b, files |-> F]] \in [Versions -> Dir]
  BY DEF TypeOK, Dir
<1> QED
  BY <1>1, <1>3, <1>4, <1>5 DEF Dir

\* The engine's staging, and closing the window, leave an attempt alone.
LEMMA StagingIInv ==
  ASSUME IInv,
         \/ StageClear \/ StagePublish \/ StageEmpty \/ StageFails \/ Quit
         \/ \E v \in Versions : StageStart(v)
         \/ \E f \in Files : StageExtract(f)
  PROVE  IInv'
<1> USE ShipsAssumption, FaultsAssumption DEF IInv, TypeOK, Happens, Staging, StageRest, attempt
<1>1. ASSUME NEW v \in Versions, StageStart(v) PROVE IInv'
  BY <1>1 DEF StageStart, Versions, Attempt, Undoable
<1>2. ASSUME StageClear PROVE IInv'
  <2> DEFINE v == stager.version
  <2>1. v \in Versions
    BY <1>2 DEF StageClear, Attempt
  <2>2. staged[v].files \in SUBSET Files /\ staged[v].dir \in BOOLEAN
    BY <2>1, DirsStayDirs
  <2>3. staged' \in [Versions -> Dir]
    <3>1. CASE staged[v].files # {}
      <4>1. PICK f \in staged[v].files : staged' = [staged EXCEPT ![v].files = staged[v].files \ {f}]
        BY <1>2, <3>1 DEF StageClear
      <4> QED
        BY <4>1, <2>1, <2>2, DirsStayDirs
    <3>2. CASE staged[v].files = {}
      <4>1. staged' = [staged EXCEPT ![v].dir = ~staged[v].dir]
        BY <1>2, <3>2 DEF StageClear
      <4> QED
        BY <4>1, <2>1, <2>2, DirsStayDirs
    <3> QED
      BY <3>1, <3>2
  <2>4. stager' \in {stager, [stager EXCEPT !.at = "extract"]}
    BY <1>2 DEF StageClear
  <2> QED
    BY <1>2, <2>1, <2>3, <2>4 DEF StageClear, Attempt, Undoable
<1>3. ASSUME NEW f \in Files, StageExtract(f) PROVE IInv'
  <2> DEFINE v == stager.version
  <2>1. v \in Versions
    BY <1>3 DEF StageExtract, Attempt
  <2>2. staged[v].files \cup {f} \in SUBSET Files
    BY <2>1, DirsStayDirs
  <2>3. staged' = [staged EXCEPT ![v] = [dir |-> TRUE, files |-> staged[v].files \cup {f}]]
    BY <1>3 DEF StageExtract
  <2>4. staged' \in [Versions -> Dir]
    BY <2>1, <2>2, <2>3, DirsStayDirs
  <2>5. stager' = [stager EXCEPT !.left = stager.left \ {f}]
    BY <1>3 DEF StageExtract
  <2>6. stager' \in [at : {"idle", "clear", "extract"}, version : 0..Last, left : SUBSET Files]
    BY <2>5
  <2>7. stager'.version = stager.version
    BY <2>5
  <2> QED
    BY <1>3, <2>1, <2>4, <2>6, <2>7 DEF StageExtract, Attempt, Undoable
<1>4. ASSUME StagePublish PROVE IInv'
  BY <1>4 DEF StagePublish, Idle, NotStaging, Attempt, Undoable
<1>7. ASSUME StageEmpty PROVE IInv'
  <2>1. staged' \in [Versions -> Dir]
    BY <1>7 DEF StageEmpty, NoDir, Dir
  <2> QED
    BY <1>7, <2>1 DEF StageEmpty, NotStaging, Attempt, Undoable
<1>5. ASSUME StageFails PROVE IInv'
  BY <1>5 DEF StageFails, Idle, NotStaging, Attempt, Undoable
<1>6. ASSUME Quit PROVE IInv'
  <2>1. running' \in BOOLEAN /\ ~running'
    BY <1>6 DEF Quit
  <2>2. Undoable'
    BY <1>6, <2>1 DEF Quit, Undoable
  <2>3. stager' = NotStaging /\ Attempt'
    BY <1>6 DEF Quit, Idle, NotStaging, Attempt
  <2>4. TypeOK'
    BY <1>6, <2>1, <2>3 DEF Quit, Idle, NotStaging
  <2> QED
    BY <2>2, <2>3, <2>4
<1> QED
  BY <1>1, <1>2, <1>3, <1>4, <1>5, <1>6, <1>7

\* A start with something pending begins an attempt with nothing written down.
LEMMA LaunchIInv == IInv /\ Launch => IInv'
<1> SUFFICES ASSUME IInv, Launch PROVE IInv'
  OBVIOUS
<1> USE ShipsAssumption, FaultsAssumption DEF IInv, TypeOK, Launcher, Goto, ApplyRest
<1>1. done' = [replaced |-> {}, created |-> {}] /\ wrecked' = {}
  BY DEF Launch
<1>2. CASE pending # 0 /\ staged[pending].dir
  <2>1. pending \in Versions
    BY <1>2 DEF Versions
  <2>2. todo' = staged[pending].files /\ todo' \in SUBSET Files
    BY <1>2, <2>1, DirsStayDirs DEF Launch
  <2>3. backup' \in [Versions -> Image]
    <3>1. Nothing \in Image
      BY NumbersAreContent DEF Nothing, Image
    <3> QED
      BY <1>2, <3>1 DEF Launch
  <2>4. receipt' \in [Versions -> Log]
    <3>1. NoLog \in Log
      BY DEF NoLog, Log
    <3> QED
      BY <1>2, <3>1 DEF Launch
  <2>5. launcher' = [at |-> "apply", version |-> pending] /\ before' = install /\ install' = install
    BY <1>2 DEF Launch
  <2>6. Attempt'
    BY <1>1, <2>1, <2>5 DEF Launch, Attempt
  <2>7. Undoable'
    BY <1>1, <2>5 DEF Undoable
  <2> QED
    BY <1>1, <2>2, <2>3, <2>4, <2>5, <2>6, <2>7 DEF Launch
<1>3. CASE ~(pending # 0 /\ staged[pending].dir)
  <2>1. launcher' = [launcher EXCEPT !.at = "start"] /\ UNCHANGED <<todo, backup, receipt, before>>
    BY <1>3 DEF Launch
  <2>2. launcher'.at = "start" /\ launcher' \in [at : {"idle", "apply", "unpend", "unstage", "restore", "start"}, version : 0..Last]
    BY <2>1
  <2>3. Attempt' /\ Undoable'
    BY <2>2 DEF Launch, Attempt, Undoable
  <2> QED
    BY <1>1, <2>1, <2>2, <2>3 DEF Launch
<1> QED
  BY <1>2, <1>3

\* NoteDown records what the attempt found, as long as the file is untouched.
LEMMA NotedDown ==
  ASSUME IInv, launcher.at = "apply", NEW f \in todo, NoteDown(f)
  PROVE  /\ f \in Files /\ install[f] = before[f]
         /\ backup' \in [Versions -> Image]
         /\ done' \in [replaced : SUBSET Files, created : SUBSET Files]
         /\ done'.replaced \cup done'.created = done.replaced \cup done.created \cup {f}
         /\ \A g \in Files :
              /\ g \in done'.created  => before[g] = Absent
              /\ g \in done'.replaced => backup'[launcher.version][g] = before[g]
<1> DEFINE v == launcher.version
<1>1. f \in Files /\ v \in Versions /\ f \notin done.replaced \cup done.created
  BY DEF IInv, TypeOK, Attempt
<1>2. install[f] = before[f] /\ install[f] \in Content
  BY <1>1 DEF IInv, TypeOK, Image, Undoable
<1>3. backup[v] \in Image
  BY <1>1 DEF IInv, TypeOK
<1>4. [backup[v] EXCEPT ![f] = install[f]] \in Image
  BY <1>2, <1>3 DEF Image
<1>5. backup' = [backup EXCEPT ![v] = [backup[v] EXCEPT ![f] = install[f]]]
  BY DEF NoteDown
<1>6. backup' \in [Versions -> Image] /\ backup'[v] = [backup[v] EXCEPT ![f] = install[f]]
  BY <1>1, <1>4, <1>5 DEF IInv, TypeOK
<1>7. \A g \in Files : backup'[v][g] = IF g = f THEN install[f] ELSE backup[v][g]
  BY <1>3, <1>6 DEF Image
<1>8. CASE install[f] # Absent
  <2>1. done' = [done EXCEPT !.replaced = done.replaced \cup {f}]
    BY <1>8 DEF NoteDown
  <2>2. done'.replaced = done.replaced \cup {f} /\ done'.created = done.created
        /\ done' \in [replaced : SUBSET Files, created : SUBSET Files]
    BY <1>1, <2>1 DEF IInv, TypeOK
  <2> QED
    BY <1>1, <1>2, <1>6, <1>7, <2>2 DEF IInv, Undoable
<1>9. CASE install[f] = Absent
  <2>1. done' = [done EXCEPT !.created = done.created \cup {f}]
    BY <1>9 DEF NoteDown
  <2>2. done'.created = done.created \cup {f} /\ done'.replaced = done.replaced
        /\ done' \in [replaced : SUBSET Files, created : SUBSET Files]
    BY <1>1, <2>1 DEF IInv, TypeOK
  <2> QED
    BY <1>1, <1>2, <1>6, <1>7, <1>9, <2>2 DEF IInv, Undoable
<1> QED
  BY <1>8, <1>9

\* Copying a file writes down first what is needed to take it back.
LEMMA CopyIInv == ASSUME IInv, NEW f \in Files, Copy(f) PROVE IInv'
<1> DEFINE v == launcher.version
<1>1. launcher.at = "apply" /\ f \in todo /\ NoteDown(f) /\ ~(running /\ f \in Locked)
  BY DEF Copy, Launcher, Refused
<1>2. v \in Versions /\ v \in Content
  BY <1>1, NumbersAreContent DEF IInv, Attempt
<1>3. install' \in Image /\ \A g \in Files : g # f => install'[g] = install[g]
  BY <1>2 DEF Copy, IInv, TypeOK, Image
<1>4. UNCHANGED <<staged, running, stager, pending, receipt, launcher, wrecked, before, events>> /\ todo' = todo \ {f}
  BY DEF Copy, ApplyRest
<1>5. TypeOK'
  BY <1>1, <1>3, <1>4, NotedDown DEF IInv, TypeOK
<1>6. Attempt'
  BY <1>1, <1>4, NotedDown DEF IInv, Attempt
<1>7. f \notin wrecked
  BY <1>1 DEF IInv, Attempt
<1>8. Undoable'
  BY <1>1, <1>3, <1>4, <1>7, NotedDown DEF IInv, Undoable
<1> QED
  BY <1>5, <1>6, <1>8 DEF IInv

\* A copy that fails leaves its file to the restoration.
LEMMA CopyFailsIInv == ASSUME IInv, NEW f \in Files, CopyFails(f) PROVE IInv'
<1>1. launcher.at = "apply" /\ f \in todo /\ NoteDown(f)
  BY DEF CopyFails, Launcher
<1>2. UNCHANGED <<staged, running, stager, install, pending, receipt, todo, before>> /\ wrecked' = {f}
  BY DEF CopyFails, ApplyRest
<1>3. launcher' = [launcher EXCEPT !.at = "restore"]
  BY DEF CopyFails, Goto
<1>4. launcher'.at = "restore" /\ launcher'.version = launcher.version
      /\ launcher' \in [at : {"idle", "apply", "unpend", "unstage", "restore", "start"}, version : 0..Last]
  BY <1>3 DEF IInv, TypeOK
<1>5. events' \in 0..MaxEvents
  BY FaultsAssumption DEF CopyFails, Happens, IInv, TypeOK
<1>6. TypeOK'
  BY <1>1, <1>2, <1>4, <1>5, NotedDown DEF IInv, TypeOK
<1>7. Attempt'
  BY <1>1, <1>2, <1>4 DEF IInv, Attempt
<1>8. Undoable'
  BY <1>1, <1>2, <1>4, NotedDown DEF IInv, Undoable
<1> QED
  BY <1>6, <1>7, <1>8 DEF IInv

\* The steps that only move on.
LEMMA MovingIInv ==
  ASSUME IInv, Receipt \/ ReceiptFails \/ Unpend \/ Unstage \/ RestoreDone \/ Start
  PROVE  IInv'
<1> USE ShipsAssumption, FaultsAssumption DEF IInv, Launcher, Goto, ApplyRest, attempt, Happens
<1>1. ASSUME Receipt PROVE IInv'
  <2>1. launcher.version \in Versions
    BY <1>1 DEF Receipt, Attempt
  <2>2. receipt' \in [Versions -> Log]
    <3>1. [written |-> TRUE, replaced |-> done.replaced, created |-> done.created] \in Log
      BY DEF TypeOK, Log
    <3> QED
      BY <1>1, <3>1 DEF Receipt, TypeOK
  <2>3. launcher'.at = "unpend" /\ launcher'.version = launcher.version
    BY <1>1 DEF Receipt, TypeOK
  <2> QED
    BY <1>1, <2>1, <2>2, <2>3 DEF Receipt, TypeOK, Attempt, Undoable
<1>2. ASSUME ReceiptFails PROVE IInv'
  <2>1. launcher'.at = "restore" /\ launcher'.version = launcher.version
    BY <1>2 DEF ReceiptFails, TypeOK
  <2> QED
    BY <1>2, <2>1 DEF ReceiptFails, TypeOK, Attempt, Undoable
<1>3. ASSUME Unpend PROVE IInv'
  <2>1. launcher'.at = "unstage" /\ launcher'.version = launcher.version
    BY <1>3 DEF Unpend, TypeOK
  <2> QED
    BY <1>3, <2>1 DEF Unpend, TypeOK, Attempt, Undoable
<1>4. ASSUME Unstage PROVE IInv'
  <2>1. launcher'.at = "start" /\ launcher'.version = launcher.version
    BY <1>4 DEF Unstage, TypeOK
  <2>2. NoDir \in Dir
    BY DEF NoDir, Dir
  <2> QED
    BY <1>4, <2>1, <2>2 DEF Unstage, TypeOK, Attempt, Undoable
<1>5. ASSUME RestoreDone PROVE IInv'
  <2>1. launcher'.at = "start" /\ launcher'.version = launcher.version
    BY <1>5 DEF RestoreDone, TypeOK
  <2> QED
    BY <1>5, <2>1 DEF RestoreDone, TypeOK, Attempt, Undoable
<1>6. ASSUME Start PROVE IInv'
  <2>1. launcher' = Idle /\ running' \in BOOLEAN
    BY <1>6 DEF Start
  <2>2. Attempt' /\ Undoable'
    BY <1>6, <2>1 DEF Start, Idle, NotStaging, Attempt, Undoable
  <2>3. done' \in [replaced : SUBSET Files, created : SUBSET Files]
    BY <1>6 DEF Start
  <2>4. TypeOK'
    BY <1>6, <2>1, <2>3 DEF Start, Idle, NotStaging, TypeOK
  <2> QED
    BY <2>2, <2>4
<1> QED
  BY <1>1, <1>2, <1>3, <1>4, <1>5, <1>6

\* Each file restored is one less that differs.
LEMMA RestoreIInv == ASSUME IInv, NEW f \in Files, Restore(f) PROVE IInv'
<1> DEFINE v == launcher.version
<1>1. launcher.at = "restore" /\ f \in done.created \cup done.replaced /\ v \in Versions
  BY DEF Restore, RestoreNext, Launcher, IInv, TypeOK, Attempt
<1>2. UNCHANGED <<staged, running, stager, pending, backup, receipt, launcher, todo, wrecked, before, events>>
  BY DEF Restore, ApplyRest
<1>3. done'.created = done.created \ {f} /\ done'.replaced = done.replaced \ {f}
      /\ done' \in [replaced : SUBSET Files, created : SUBSET Files]
  BY DEF Restore, IInv, TypeOK
<1>4. install' \in Image /\ install'[f] = before[f] /\ \A g \in Files \ {f} : install'[g] = install[g]
  <2>1. CASE running /\ f \in Locked
    BY <1>1, <2>1 DEF Restore, IInv, TypeOK, Undoable
  <2>2. CASE ~(running /\ f \in Locked)
    <3>1. before[f] = IF f \in done.created THEN Absent ELSE backup[v][f]
      BY <1>1 DEF IInv, Undoable
    <3>2. install' = [install EXCEPT ![f] = before[f]]
      BY <2>2, <3>1 DEF Restore
    <3> QED
      BY <3>2 DEF IInv, TypeOK, Image
  <2> QED
    BY <2>1, <2>2
<1>5. TypeOK'
  BY <1>2, <1>3, <1>4 DEF IInv, TypeOK
<1>6. Attempt'
  BY <1>1, <1>2 DEF IInv, Attempt
<1>7. Undoable'
  BY <1>1, <1>2, <1>3, <1>4 DEF IInv, Undoable
<1> QED
  BY <1>5, <1>6, <1>7 DEF IInv

\* What others do to the installation happens outside an attempt, or ends it.
LEMMA OthersIInv ==
  ASSUME IInv, PowerLoss \/ \E v \in Versions : RollbackVersion(v)
  PROVE  IInv'
<1> USE ShipsAssumption, FaultsAssumption DEF Happens, Launcher, attempt
<1>1. ASSUME PowerLoss PROVE IInv'
  <2>1. install' \in Image
    BY <1>1, NumbersAreContent DEF PowerLoss, IInv, TypeOK, Image
  <2>2. launcher' = Idle /\ stager' = NotStaging /\ running' \in BOOLEAN
    BY <1>1 DEF PowerLoss
  <2>3. done' \in [replaced : SUBSET Files, created : SUBSET Files]
    BY <1>1 DEF PowerLoss
  <2>4. TypeOK'
    BY <1>1, <2>1, <2>2, <2>3 DEF PowerLoss, Idle, NotStaging, IInv, TypeOK
  <2> QED
    BY <2>2, <2>4 DEF Idle, NotStaging, IInv, Attempt, Undoable
<1>2. ASSUME NEW v \in Versions, RollbackVersion(v) PROVE IInv'
  <2>1. install' \in Image
    <3>1. backup[v] \in Image
      BY DEF IInv, TypeOK
    <3>2. install' = RolledBack(v)
      BY <1>2 DEF RollbackVersion
    <3> QED
      BY <3>1, <3>2, NumbersAreContent DEF RolledBack, IInv, TypeOK, Image
  <2> QED
    BY <1>2, <2>1 DEF RollbackVersion, IInv, TypeOK, Attempt, Undoable
<1> QED
  BY <1>1, <1>2

\* Every step keeps the invariant.
LEMMA StepIInv == IInv /\ [Next]_vars => IInv'
<1> SUFFICES ASSUME IInv, [Next]_vars PROVE IInv'
  OBVIOUS
<1>1. CASE LauncherStep
  BY <1>1, CopyIInv, CopyFailsIInv, RestoreIInv, MovingIInv DEF LauncherStep
<1>2. CASE StagerStep
  BY <1>2, StagingIInv DEF StagerStep
<1>3. CASE Launch
  BY <1>3, LaunchIInv
<1>4. CASE Quit \/ StageFails \/ \E v \in Versions : StageStart(v)
  BY <1>4, StagingIInv
<1>5. CASE ReceiptFails
  BY <1>5, MovingIInv
<1>6. CASE PowerLoss \/ \E v \in Versions : RollbackVersion(v)
  BY <1>6, OthersIInv
<1>7. CASE UNCHANGED vars
  BY <1>7 DEF vars, IInv, TypeOK, Attempt, Undoable
<1> QED
  BY <1>1, <1>2, <1>3, <1>4, <1>5, <1>6, <1>7 DEF Next

(***************************************************************************)
(* The launcher can go back at every moment of an attempt: what it has     *)
(* touched is written down, and the rest is as it found it.                *)
(***************************************************************************)
THEOREM InductiveInvariant == Spec => []IInv
<1> QED
  BY InitIInv, StepIInv, PTL DEF Spec

(***************************************************************************)
(* At every moment of an attempt the launcher can go back, whatever the    *)
(* files, the releases and the disturbances.                               *)
(***************************************************************************)
THEOREM AttemptIsUndoable == Spec => []Undoable
<1>1. IInv => Undoable
  BY DEF IInv
<1> QED
  BY <1>1, InductiveInvariant, PTL

(***************************************************************************)
(* The updater's state is well typed for any files and releases.           *)
(***************************************************************************)
THEOREM UpdateTypes == Spec => []TypeOK
<1>1. IInv => TypeOK
  BY DEF IInv
<1> QED
  BY <1>1, InductiveInvariant, PTL

(***************************************************************************)
(* An attempt that fails leaves the installation as the attempt found it.  *)
(***************************************************************************)
THEOREM FailedUpdatesRestore == Spec => FailureRestores
<1>1. IInv /\ [Next]_vars => [RestoreDone => install = before]_vars
  <2> SUFFICES ASSUME IInv, RestoreDone PROVE install = before
    OBVIOUS
  <2>1. launcher.at = "restore" /\ done.created = {} /\ done.replaced = {}
    BY DEF RestoreDone, RestoreNext, Launcher
  <2>2. \A f \in Files : install[f] = before[f]
    BY <2>1 DEF IInv, Undoable
  <2> QED
    BY <2>2 DEF IInv, TypeOK, Image
<1> QED
  BY <1>1, InductiveInvariant, PTL DEF Spec, FailureRestores

\* While files are copied or restored there is no receipt of that release yet.
ReceiptLast ==
  /\ launcher.at = "idle" => launcher.version = 0
  /\ launcher.at \in {"apply", "restore"} => ~receipt[launcher.version].written

RInv == IInv /\ ReceiptLast /\ ReceiptRollsBack

\* There is no receipt at first.
LEMMA InitRInv == Init => RInv
  BY InitIInv DEF RInv, Init, Idle, NotStaging, ReceiptLast, ReceiptRollsBack

\* Writing the receipt when every file is copied.
LEMMA ReceiptRInv == RInv /\ Receipt => RInv'
<1> SUFFICES ASSUME RInv, Receipt PROVE RInv'
  OBVIOUS
<1> DEFINE v == launcher.version
<1>1. IInv'
  BY MovingIInv DEF RInv
<1>2. launcher.at = "apply" /\ v \in Versions
  BY DEF Receipt, Launcher, RInv, IInv, Attempt
<1>3. launcher' = [launcher EXCEPT !.at = "unpend"] /\ UNCHANGED <<install, backup, before>>
  BY DEF Receipt, Goto, attempt
<1>4. launcher'.at = "unpend" /\ launcher'.version = v
  BY <1>3 DEF RInv, IInv, TypeOK
<1>5. receipt'[v].replaced = done.replaced /\ receipt'[v].created = done.created
  BY <1>2 DEF Receipt, RInv, IInv, TypeOK
<1>6. RolledBack(v)' = before'
  <2>1. RolledBack(v)' = [f \in Files |-> IF f \in done.created THEN Absent
                                         ELSE IF f \in done.replaced THEN backup[v][f] ELSE install[f]]
    BY <1>3, <1>4, <1>5 DEF RolledBack
  <2>2. \A f \in Files : RolledBack(v)'[f] = before[f]
    BY <1>2, <2>1 DEF RInv, IInv, Undoable
  <2> QED
    BY <1>3, <2>1, <2>2 DEF RInv, IInv, TypeOK, Image
<1>7. ReceiptRollsBack'
  BY <1>4, <1>6 DEF ReceiptRollsBack
<1> QED
  BY <1>1, <1>4, <1>7 DEF RInv, ReceiptLast

\* Every step keeps the receipts true.
LEMMA StepRInv == RInv /\ [Next]_vars => RInv'
<1> SUFFICES ASSUME RInv, [Next]_vars PROVE RInv'
  OBVIOUS
<1> USE DEF Launcher, Goto, ApplyRest, attempt
<1>1. IInv'
  BY StepIInv DEF RInv
<1>2. TypeOK /\ Attempt
  BY DEF RInv, IInv
<1>3. ASSUME UNCHANGED <<launcher, receipt, backup, install, before>> PROVE RInv'
  <2>1. \A v : RolledBack(v)' = RolledBack(v)
    BY <1>3 DEF RolledBack
  <2> QED
    BY <1>1, <1>3, <2>1 DEF RInv, ReceiptLast, ReceiptRollsBack
<1>4. ASSUME launcher'.at \in {"apply", "restore"}, ~receipt'[launcher'.version].written PROVE RInv'
  BY <1>1, <1>4 DEF RInv, ReceiptLast, ReceiptRollsBack
<1>5. CASE StagerStep \/ Quit \/ StageFails \/ \E v \in Versions : StageStart(v)
  BY <1>3, <1>5 DEF StagerStep, StageClear, StagePublish, StageEmpty, StageExtract, Quit, StageFails, StageStart, StageRest
<1>6. CASE Launch
  <2>1. CASE pending # 0 /\ staged[pending].dir
    <3>1. pending \in Versions /\ launcher'.at = "apply" /\ launcher'.version = pending
      BY <1>2, <1>6, <2>1 DEF Launch, TypeOK, Versions
    <3>2. receipt'[pending] = NoLog
      BY <1>2, <1>6, <2>1, <3>1 DEF Launch, TypeOK
    <3> QED
      BY <1>4, <3>1, <3>2 DEF NoLog
  <2>2. CASE ~(pending # 0 /\ staged[pending].dir)
    <3>1. launcher'.at = "start" /\ launcher'.version = 0
      BY <1>2, <1>6, <2>2 DEF Launch, TypeOK, RInv, ReceiptLast
    <3> QED
      BY <1>1, <3>1 DEF RInv, ReceiptLast, ReceiptRollsBack
  <2> QED
    BY <2>1, <2>2
<1>7. ASSUME NEW f \in Files, Copy(f) \/ CopyFails(f) \/ Restore(f) PROVE RInv'
  <2>1. launcher.at \in {"apply", "restore"} /\ launcher'.at \in {"apply", "restore"}
        /\ launcher'.version = launcher.version /\ receipt' = receipt
    BY <1>2, <1>7 DEF Copy, CopyFails, Restore, TypeOK
  <2> QED
    BY <1>4, <2>1 DEF RInv, ReceiptLast
<1>8. CASE ReceiptFails
  <2>1. launcher.at = "apply" /\ launcher'.at = "restore"
        /\ launcher'.version = launcher.version /\ receipt' = receipt
    BY <1>2, <1>8 DEF ReceiptFails, TypeOK
  <2> QED
    BY <1>4, <2>1 DEF RInv, ReceiptLast
<1>9. CASE Unpend \/ Unstage \/ RestoreDone
  <2>1. launcher.at \in {"unpend", "unstage", "restore"} /\ launcher'.at \in {"unstage", "start"}
        /\ launcher'.version = launcher.version
        /\ UNCHANGED <<receipt, backup, install, before>>
    BY <1>2, <1>9 DEF Unpend, Unstage, RestoreDone, TypeOK
  <2>2. RolledBack(launcher.version)' = RolledBack(launcher.version)
    BY <2>1 DEF RolledBack
  <2> QED
    BY <1>1, <2>1, <2>2 DEF RInv, ReceiptLast, ReceiptRollsBack
<1>10. CASE Start \/ PowerLoss
  <2>1. launcher'.at = "idle" /\ launcher'.version = 0
    BY <1>10 DEF Start, PowerLoss, Idle, NotStaging
  <2> QED
    BY <1>1, <2>1 DEF RInv, ReceiptLast, ReceiptRollsBack
<1>11. CASE \E v \in Versions : RollbackVersion(v)
  <2>1. launcher.at = "idle" /\ launcher' = launcher
    BY <1>11 DEF RollbackVersion
  <2> QED
    BY <1>1, <2>1 DEF RInv, ReceiptLast, ReceiptRollsBack
<1>12. CASE UNCHANGED vars
  BY <1>3, <1>12 DEF vars
<1> QED
  BY <1>5, <1>6, <1>7, <1>8, <1>9, <1>10, <1>11, <1>12, ReceiptRInv DEF Next, LauncherStep

(***************************************************************************)
(* A receipt tells the truth: rolling the release back leads to the        *)
(* installation the attempt had found.                                     *)
(***************************************************************************)
THEOREM ReceiptsAreTrue == Spec => []ReceiptRollsBack
<1>1. RInv => ReceiptRollsBack
  BY DEF RInv
<1> QED
  BY <1>1, InitRInv, StepRInv, PTL DEF Spec
=============================================================================
