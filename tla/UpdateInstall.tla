--------------------------- MODULE UpdateInstall ---------------------------
(***************************************************************************)
(* The updater (svc_engine/updates.py) and the launcher: the engine of the *)
(* running application stages a release in a directory and names it in a   *)
(* pending file; the launcher, before it starts the application, copies    *)
(* the staged files over the installation one by one, keeps a backup, and  *)
(* restores it when something fails.  Nothing locks these directories: the *)
(* launcher may be started while the application still runs, and either    *)
(* may be interrupted at any point.                                        *)
(*                                                                         *)
(* A file's content is the number of the release it came from.             *)
(***************************************************************************)
EXTENDS Integers

CONSTANTS
  Files,        \* the files of the installation
  Core,         \* the one that says which release is running
  Locked,       \* those a running application holds open
  Last,         \* releases are numbered 1..Last; 0 is the installed one
  Ships,        \* Ships[v]: the files of release v
  Faults,       \* the kinds of disturbance that may occur
  MaxEvents     \* bound: disturbances in a behaviour

ASSUME FilesAssumption == Core \in Files /\ Locked \subseteq Files
ASSUME ShipsAssumption ==
  /\ Last \in Nat
  /\ Ships \in [0..Last -> SUBSET Files]
  /\ \A v \in 0..Last : Core \in Ships[v]
ASSUME FaultsAssumption ==
  /\ Faults \subseteq {"stageFails", "copyFails", "receiptFails", "powerLoss", "rollback"}
  /\ MaxEvents \in Nat

VARIABLES
  install,      \* install[f]: the content of a file of the installation
  staged,       \* staged[v]: the staging directory of release v
  pending,      \* the release the pending file names, or 0
  backup,       \* backup[v]: what applying v has saved
  receipt,      \* receipt[v]: the files transaction.json names, once written
  running,      \* the application is running
  stager,       \* where the engine's staging stands, and the files left to extract
  launcher,     \* where the launcher stands
  todo, done,   \* its files still to copy, and those it has touched
  wrecked,      \* the file, if any, on which its copying failed
  before,       \* the installation when this attempt began (history)
  events        \* disturbances that may still occur

vars == <<install, staged, pending, backup, receipt, running, stager, launcher, todo, done,
          wrecked, before, events>>
attempt == <<todo, done, wrecked, before>>

Absent   == -1
Torn     == -2        \* half written
Versions == 1..Last
Content  == {Absent, Torn} \cup 0..Last
Image    == [Files -> Content]
Dir      == [dir : BOOLEAN, files : SUBSET Files]
Log      == [written : BOOLEAN, replaced : SUBSET Files, created : SUBSET Files]
NoDir    == [dir |-> FALSE, files |-> {}]
NoLog    == [written |-> FALSE, replaced |-> {}, created |-> {}]
Idle     == [at |-> "idle", version |-> 0]
NotStaging == [at |-> "idle", version |-> 0, left |-> {}]
Nothing  == [f \in Files |-> Absent]

TypeOK ==
  /\ install  \in Image
  /\ staged   \in [Versions -> Dir]
  /\ pending  \in 0..Last
  /\ backup   \in [Versions -> Image]
  /\ receipt  \in [Versions -> Log]
  /\ running  \in BOOLEAN
  /\ stager   \in [at : {"idle", "clear", "extract"}, version : 0..Last, left : SUBSET Files]
  /\ launcher \in [at : {"idle", "apply", "unpend", "unstage", "restore", "start"}, version : 0..Last]
  /\ todo     \in SUBSET Files
  /\ done     \in [replaced : SUBSET Files, created : SUBSET Files]
  /\ wrecked  \in SUBSET Files
  /\ before   \in Image
  /\ events   \in 0..MaxEvents

Clean(v) == [f \in Files |-> IF f \in Ships[v] THEN v ELSE Absent]
Init ==
  /\ install = Clean(0) /\ before = Clean(0)
  /\ staged = [v \in Versions |-> NoDir] /\ pending = 0
  /\ backup = [v \in Versions |-> Nothing] /\ receipt = [v \in Versions |-> NoLog]
  /\ running = FALSE /\ stager = NotStaging /\ launcher = Idle
  /\ todo = {} /\ done = [replaced |-> {}, created |-> {}] /\ wrecked = {}
  /\ events = MaxEvents

Happens(f) == f \in Faults /\ events > 0 /\ events' = events - 1

-----------------------------------------------------------------------------
(* stage: the archive has been downloaded and its hash is right *)

Staging(at) == stager.at = at
StageRest   == UNCHANGED <<install, backup, receipt, running, launcher, attempt>>

\* The running release is asked for something newer; it may well be staged already.
StageStart(v) ==
  /\ running /\ Staging("idle") /\ v > install[Core]
  /\ stager' = [at |-> "clear", version |-> v, left |-> Ships[v]]
  /\ StageRest /\ UNCHANGED <<staged, pending, events>>

\* A directory of that name is removed, then made anew.
StageClear ==
  /\ Staging("clear")
  /\ LET v == stager.version IN
       IF staged[v].files # {}
         THEN /\ \E f \in staged[v].files : staged' = [staged EXCEPT ![v].files = @ \ {f}]
              /\ UNCHANGED stager
         ELSE staged' = [staged EXCEPT ![v].dir = ~@]
              /\ stager' = IF staged[v].dir THEN stager ELSE [stager EXCEPT !.at = "extract"]
  /\ StageRest /\ UNCHANGED <<pending, events>>

\* One pass over the archive; a directory that is missing is made again.
StageExtract(f) ==
  /\ Staging("extract") /\ f \in stager.left
  /\ stager' = [stager EXCEPT !.left = @ \ {f}]
  /\ staged' = [staged EXCEPT ![stager.version] = [dir |-> TRUE, files |-> @.files \cup {f}]]
  /\ StageRest /\ UNCHANGED <<pending, events>>

\* Mutant: the pending file names the release after the staged one.
StagePublishNext ==
  /\ Staging("extract") /\ stager.left = {} /\ staged[stager.version].files # {}
  /\ pending' = stager.version + 1 /\ stager' = NotStaging
  /\ StageRest /\ UNCHANGED <<staged, events>>

StagePublish ==
  /\ Staging("extract") /\ stager.left = {} /\ staged[stager.version].files # {}
  /\ pending' = stager.version /\ stager' = NotStaging
  /\ StageRest /\ UNCHANGED <<staged, events>>

\* A launcher that has just installed the release took everything away.
StageEmpty ==
  /\ Staging("extract") /\ stager.left = {} /\ staged[stager.version].files = {}
  /\ staged' = [staged EXCEPT ![stager.version] = NoDir] /\ stager' = NotStaging
  /\ StageRest /\ UNCHANGED <<pending, events>>

\* The disk is full, or the archive cannot be unpacked.
StageFails ==
  /\ ~Staging("idle") /\ Happens("stageFails")
  /\ stager' = NotStaging
  /\ StageRest /\ UNCHANGED <<staged, pending>>

\* The window is closed; a busy engine is killed.
Quit ==
  /\ running /\ running' = FALSE /\ stager' = NotStaging
  /\ UNCHANGED <<install, staged, pending, backup, receipt, launcher, attempt, events>>

-----------------------------------------------------------------------------
(* apply_pending *)

Launcher(at) == launcher.at = at
Goto(at)     == launcher' = [launcher EXCEPT !.at = at]
ApplyRest    == UNCHANGED <<staged, running, stager>>

\* Mutant: the pending file is given up before the files are copied.
LaunchOnce ==
  /\ Launcher("idle")
  /\ IF pending # 0 /\ staged[pending].dir
       THEN /\ launcher' = [at |-> "apply", version |-> pending]
            /\ todo' = staged[pending].files
            /\ backup'  = [backup  EXCEPT ![pending] = Nothing]
            /\ receipt' = [receipt EXCEPT ![pending] = NoLog]
            /\ before' = install /\ pending' = 0
       ELSE Goto("start") /\ UNCHANGED <<todo, backup, receipt, before, pending>>
  /\ done' = [replaced |-> {}, created |-> {}] /\ wrecked' = {}
  /\ ApplyRest /\ UNCHANGED <<install, events>>

Launch ==
  /\ Launcher("idle")
  /\ IF pending # 0 /\ staged[pending].dir
       THEN /\ launcher' = [at |-> "apply", version |-> pending]
            /\ todo' = staged[pending].files
            /\ backup'  = [backup  EXCEPT ![pending] = Nothing]
            /\ receipt' = [receipt EXCEPT ![pending] = NoLog]
            /\ before' = install
       ELSE Goto("start") /\ UNCHANGED <<todo, backup, receipt, before>>
  /\ done' = [replaced |-> {}, created |-> {}] /\ wrecked' = {}
  /\ ApplyRest /\ UNCHANGED <<install, pending, events>>

\* Mutant: files the update adds are not written down.
NoteDownReplaced(f) ==
  /\ done' = IF install[f] # Absent THEN [done EXCEPT !.replaced = @ \cup {f}] ELSE done
  /\ backup' = [backup EXCEPT ![launcher.version][f] = install[f]]

\* What a file was is written down before it is replaced.
NoteDown(f) ==
  /\ done' = IF install[f] # Absent THEN [done EXCEPT !.replaced = @ \cup {f}]
                                    ELSE [done EXCEPT !.created  = @ \cup {f}]
  /\ backup' = [backup EXCEPT ![launcher.version][f] = install[f]]

Refused(f) == f \notin staged[launcher.version].files \/ (running /\ f \in Locked)

Copy(f) ==
  /\ Launcher("apply") /\ f \in todo /\ ~Refused(f)
  /\ NoteDown(f)
  /\ install' = [install EXCEPT ![f] = launcher.version]
  /\ todo' = todo \ {f}
  /\ ApplyRest /\ UNCHANGED <<pending, receipt, launcher, wrecked, before, events>>

CopyFails(f) ==
  /\ Launcher("apply") /\ f \in todo
  /\ (Refused(f) /\ UNCHANGED events) \/ (~Refused(f) /\ Happens("copyFails"))
  /\ NoteDown(f)
  /\ wrecked' = {f} /\ Goto("restore")
  /\ ApplyRest /\ UNCHANGED <<install, pending, receipt, todo, before>>

Receipt ==
  /\ Launcher("apply") /\ todo = {}
  /\ receipt' = [receipt EXCEPT ![launcher.version] =
                   [written |-> TRUE, replaced |-> done.replaced, created |-> done.created]]
  /\ Goto("unpend")
  /\ ApplyRest /\ UNCHANGED <<install, pending, backup, attempt, events>>

ReceiptFails ==
  /\ Launcher("apply") /\ todo = {} /\ Happens("receiptFails")
  /\ Goto("restore")
  /\ ApplyRest /\ UNCHANGED <<install, pending, backup, receipt, attempt>>

Unpend ==
  /\ Launcher("unpend") /\ pending' = 0 /\ Goto("unstage")
  /\ ApplyRest /\ UNCHANGED <<install, backup, receipt, attempt, events>>

Unstage ==
  /\ Launcher("unstage") /\ Goto("start")
  /\ staged' = [staged EXCEPT ![launcher.version] = NoDir]
  /\ UNCHANGED <<install, pending, backup, receipt, running, stager, attempt, events>>

\* Mutant: added files stay.
RestoreReplacedOnly ==
  IF done.replaced \ wrecked # {} THEN done.replaced \ wrecked ELSE done.replaced

\* Added files go first; the file the copying failed on comes last.
RestoreNext ==
  IF done.created # {} THEN done.created
  ELSE IF done.replaced \ wrecked # {} THEN done.replaced \ wrecked ELSE done.replaced

Restore(f) ==
  /\ Launcher("restore") /\ f \in RestoreNext
  /\ done' = [replaced |-> done.replaced \ {f}, created |-> done.created \ {f}]
  /\ install' = IF running /\ f \in Locked THEN install
                ELSE [install EXCEPT ![f] = IF f \in done.created THEN Absent ELSE backup[launcher.version][f]]
  /\ ApplyRest /\ UNCHANGED <<pending, backup, receipt, launcher, todo, wrecked, before, events>>

RestoreDone ==
  /\ Launcher("restore") /\ RestoreNext = {}
  /\ Goto("start")
  /\ ApplyRest /\ UNCHANGED <<install, pending, backup, receipt, attempt, events>>

\* Whatever became of the update, the application is started.
Start ==
  /\ Launcher("start") /\ launcher' = Idle
  /\ running' = TRUE
  /\ todo' = {} /\ done' = [replaced |-> {}, created |-> {}] /\ wrecked' = {}
  /\ UNCHANGED <<install, staged, pending, backup, receipt, stager, before, events>>

-----------------------------------------------------------------------------
RolledBack(v) == [f \in Files |-> IF f \in receipt[v].created THEN Absent
                                  ELSE IF f \in receipt[v].replaced THEN backup[v][f] ELSE install[f]]

\* No part of the application calls it: someone who repairs an installation does.
RollbackVersion(v) ==
  /\ Launcher("idle") /\ ~running /\ receipt[v].written /\ Happens("rollback")
  /\ install' = RolledBack(v)
  /\ UNCHANGED <<staged, pending, backup, receipt, running, stager, launcher, attempt>>

\* A restore copies over the file in place: it may be left half written.
PowerLoss ==
  /\ Happens("powerLoss")
  /\ \/ UNCHANGED install
     \/ /\ Launcher("restore") /\ done.created = {}
        /\ \E f \in RestoreNext : install' = [install EXCEPT ![f] = Torn]
  /\ running' = FALSE /\ stager' = NotStaging /\ launcher' = Idle
  /\ todo' = {} /\ done' = [replaced |-> {}, created |-> {}] /\ wrecked' = {}
  /\ UNCHANGED <<staged, pending, backup, receipt, before>>

LauncherStep ==
  \/ \E f \in Files : Copy(f) \/ CopyFails(f) \/ Restore(f)
  \/ Receipt \/ Unpend \/ Unstage \/ RestoreDone \/ Start
StagerStep == StageClear \/ StagePublish \/ StageEmpty \/ \E f \in Files : StageExtract(f)

Next ==
  \/ LauncherStep \/ StagerStep \/ Launch \/ Quit
  \/ \E v \in Versions : StageStart(v) \/ RollbackVersion(v)
  \/ StageFails \/ ReceiptFails \/ PowerLoss

Spec == Init /\ [][Next]_vars

\* The launcher goes on; the user quits the application and starts it again.
Fairness ==
  /\ WF_vars(LauncherStep)
  /\ SF_vars(Launcher("idle") /\ Quit)
  /\ SF_vars(~running /\ Launch)
UsedSpec == Spec /\ Fairness

-----------------------------------------------------------------------------
Release(v) == \A f \in Files : IF f \in Ships[v] THEN install[f] = v ELSE install[f] \in {Absent} \cup 0..(v - 1)

\* The engine stages a release; the launcher applies one, and while it copies
\* it has touched no file twice and no file has refused.
Attempt ==
  /\ stager.at # "idle" => stager.version \in Versions
  /\ launcher.at \in {"apply", "unpend", "unstage", "restore"} => launcher.version \in Versions
  /\ launcher.at = "apply" => todo \cap (done.created \cup done.replaced) = {} /\ wrecked = {}

(***************************************************************************)
(* At every moment of an attempt, what the launcher has written down is    *)
(* enough to go back: a touched file is either known as added or has its   *)
(* old content in the backup, and no file in use has been touched          *)
(* (replaced, created and the backup of apply_pending).                    *)
(***************************************************************************)
Undoable ==
  launcher.at \in {"apply", "restore"} =>
    \A f \in Files :
      /\ f \in done.created  => before[f] = Absent
      /\ f \in done.replaced => backup[launcher.version][f] = before[f]
      /\ f \notin done.created \cup done.replaced => install[f] = before[f]
      /\ f \in wrecked => install[f] = before[f]
      /\ running /\ f \in Locked => install[f] = before[f]

(***************************************************************************)
(* An attempt that fails leaves the installation as the attempt found it:  *)
(* replaced files are restored and added ones are removed, whichever step  *)
(* failed and whatever runs meanwhile (apply_pending, phase-11.md 3).      *)
(***************************************************************************)
FailureRestores == [][RestoreDone => install = before]_vars

(***************************************************************************)
(* A receipt tells the truth: rolling the release back leads to the        *)
(* installation the attempt had found (rollback_version).                  *)
(***************************************************************************)
ReceiptRollsBack ==
  launcher.at \in {"unpend", "unstage", "start"} /\ launcher.version # 0 /\ receipt[launcher.version].written
    => RolledBack(launcher.version) = before

(***************************************************************************)
(* A release that is staged is installed by one of the next starts, unless *)
(* something is staged again ("will be installed at the next start",       *)
(* _check_for_update): no failure or power loss blocks it for good.        *)
(***************************************************************************)
Ready(v) ==
  /\ pending = v /\ staged[v].dir /\ staged[v].files = Ships[v]
  /\ stager.at = "idle" /\ launcher.at = "idle"
StagedIsInstalled ==
  \A v \in Versions : Ready(v) ~> (stager.at # "idle" \/ \A f \in Ships[v] : install[f] = v)

(***************************************************************************)
(* The application never starts from a mixture of releases: "any failure   *)
(* returns the installation to its previous state" (architecture.md 11).   *)
(***************************************************************************)
StartsWhole == launcher.at = "start" => \E v \in 0..Last : Release(v)
=============================================================================
