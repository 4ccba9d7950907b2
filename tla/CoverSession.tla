---------------------------- MODULE CoverSession ----------------------------
(***************************************************************************)
(* The window, its engine process and the cover workflow: svc_app/main.py, *)
(* engine_client.py and the wizard, svc_engine/rpc/server.py and           *)
(* workflows/cover.py.                                                     *)
(*                                                                         *)
(* The window owns at most one engine and speaks to it through two pipes.  *)
(* Two threads of the window call the engine: the GUI thread, for short    *)
(* requests, and one worker thread, for covers and for the download of an  *)
(* update; the client has no lock.  Cancelling and closing stop the engine *)
(* (close its input, wait, kill).  An engine that outlives its window      *)
(* fails as soon as it reports progress.                                   *)
(*                                                                         *)
(* The steps of a job are those of JobRunner; here only the last of them,  *)
(* the delivery to the user's folder, is followed.                         *)
(***************************************************************************)
EXTENDS Naturals, Sequences

CONSTANTS
  Jobs,         \* identifiers of covers
  NOutputs,     \* the names the window may choose for a full cover: 1..NOutputs
  Engines,      \* engine processes
  Ids,          \* request ids
  None,
  Faults,       \* the kinds of disturbance that may occur
  MaxEvents     \* bound: disturbances in a behaviour

ASSUME CountsAssumption == NOutputs \in Nat /\ MaxEvents \in Nat
ASSUME NoneAssumption == None \notin Jobs \cup Engines
ASSUME FaultsAssumption == Faults \subseteq {"raises", "engineDies", "appDies", "noise", "close"}

VARIABLES
  request,      \* request[j]: jobs/requests/j.json exists
  snap,         \* snap[j]: the status in the recovery snapshot
  delivered,    \* delivered[j]: the result of the delivery step is cached
  target,       \* target[j]: the output named in the request
  file,         \* file[o]: which job wrote the user's file o, and whether it is whole
  engine, inbox, outbox,   \* of each engine process
  proc,         \* the engine the client refers to
  call,         \* call[t]: the call a thread of the window is making
  worker,       \* the worker thread
  win,          \* the window
  shared,       \* jobs that two engines were running at once (history)
  events        \* disturbances that may still occur

disk == <<request, snap, delivered, target, file, shared>>
pipes == <<engine, inbox, outbox>>
vars == <<disk, pipes, proc, call, worker, win, events>>

Threads == {"gui", "worker"}
Outputs == 1..NOutputs
Inside  == 0       \* the output of a preview: a file of the application's own folder
Target  == Outputs \cup {Inside}
Op      == {"quick", "offer", "stage", "cover", "resume"}
Request == [id : Ids, op : Op, job : Jobs \cup {None}, out : Target]
Line    == [id : Ids, kind : {"ok", "error", "noise"}, job : Jobs \cup {None}]
Phase   == {"idle", "stage", "cover", "resume", "execute", "run", "work",
            "copying", "publish", "complete", "finish", "failing"}
Page    == {"choose", "processing", "recommend", "preview", "result"}

NoRequest == [id |-> CHOOSE i \in Ids : TRUE, op |-> "quick", job |-> None, out |-> Inside]
NoCall    == [at |-> "none", proc |-> None, req |-> NoRequest]
Down      == [up |-> FALSE, open |-> FALSE, heard |-> FALSE, at |-> "idle", req |-> NoRequest]
NoWorker  == [run |-> FALSE, shows |-> "none", result |-> None, posted |-> <<>>]
Shut      == [open |-> FALSE, gui |-> "loop", then |-> "refresh", screen |-> "wizard", page |-> "choose",
              cancelled |-> FALSE, stopping |-> None]

TypeOK ==
  /\ request   \in [Jobs -> BOOLEAN]
  /\ snap      \in [Jobs -> {"none", "running", "failed", "completed"}]
  /\ delivered \in [Jobs -> BOOLEAN]
  /\ target    \in [Jobs -> Target]
  /\ file      \in [Outputs -> [by : Jobs \cup {None}, whole : BOOLEAN]]
  /\ engine    \in [Engines -> [up : BOOLEAN, open : BOOLEAN, heard : BOOLEAN, at : Phase, req : Request]]
  /\ \A e \in Engines : inbox[e] \in Seq(Request) /\ outbox[e] \in Seq(Line)
  /\ proc      \in Engines \cup {None}
  /\ call      \in [Threads -> [at : {"none", "start", "write", "read"}, proc : Engines \cup {None}, req : Request]]
  /\ worker.run \in BOOLEAN /\ worker.shows \in {"none", "recommend", "result"} /\ worker.result \in Jobs \cup {None}
  /\ worker.posted \in Seq({"succeeded", "failed", "finished"})
  /\ win \in [open : BOOLEAN, gui : {"loop", "call", "stop"},
              then : {"refresh", "preview", "stage", "offer", "project", "cancel", "close"},
              screen : {"wizard", "other"}, page : Page, cancelled : BOOLEAN,
              stopping : Engines \cup {None}]
  /\ shared \subseteq Jobs /\ events \in 0..MaxEvents

Init ==
  /\ request = [j \in Jobs |-> FALSE] /\ snap = [j \in Jobs |-> "none"]
  /\ delivered = [j \in Jobs |-> FALSE] /\ target = [j \in Jobs |-> Inside]
  /\ file = [o \in Outputs |-> [by |-> None, whole |-> FALSE]]
  /\ engine = [e \in Engines |-> Down]
  /\ inbox = [e \in Engines |-> <<>>] /\ outbox = [e \in Engines |-> <<>>]
  /\ proc = None /\ call = [t \in Threads |-> NoCall]
  /\ worker = NoWorker /\ win = Shut
  /\ shared = {} /\ events = MaxEvents

Happens(f) == f \in Faults /\ events > 0 /\ events' = events - 1
Recoverable(j) == snap[j] \in {"running", "failed"}

-----------------------------------------------------------------------------
(* The engine: serve_stdio and the cover workflow *)

Job(e)    == engine[e].req.job
At(e, p)  == engine[e].up /\ engine[e].at = p
Goto(e, p) == engine' = [engine EXCEPT ![e].at = p]
EngineRest == UNCHANGED <<proc, call, worker, win>>
DiskRest   == UNCHANGED disk

Gone(e) ==
  /\ engine' = [engine EXCEPT ![e] = Down]
  /\ inbox'  = [inbox EXCEPT ![e] = <<>>]

\* The answer; with nobody to read it the write raises and the process ends.
AnswerTo(e, r, kind, j, rest) ==
  LET line == [id |-> r.id, kind |-> kind, job |-> j] IN
  IF engine[e].heard
    THEN /\ engine' = [engine EXCEPT ![e].at = "idle", ![e].req = NoRequest]
         /\ outbox' = [outbox EXCEPT ![e] = Append(@, line)]
         /\ inbox'  = [inbox EXCEPT ![e] = rest]
    ELSE Gone(e) /\ UNCHANGED outbox
Answer(e, kind, j) == AnswerTo(e, engine[e].req, kind, j, inbox[e])

\* jobs.recoverable; a job counts as a cover when its request can be read.
Offers == LET covers == {j \in Jobs : Recoverable(j) /\ request[j]} IN
          IF covers = {} THEN {None} ELSE covers
Serve(e) ==
  /\ At(e, "idle") /\ inbox[e] # <<>>
  /\ LET r == Head(inbox[e])  rest == Tail(inbox[e]) IN
       \/ r.op = "quick" /\ AnswerTo(e, r, "ok", None, rest)
       \/ r.op = "offer" /\ \E j \in Offers : AnswerTo(e, r, "ok", j, rest)
       \/ /\ r.op \in {"stage", "cover", "resume"}
          /\ engine' = [engine EXCEPT ![e].at = r.op, ![e].req = r]
          /\ inbox' = [inbox EXCEPT ![e] = rest] /\ UNCHANGED outbox
  /\ EngineRest /\ DiskRest /\ UNCHANGED events

Stage(e) ==
  /\ At(e, "stage")
  /\ (Answer(e, "ok", None) /\ UNCHANGED events) \/ (Answer(e, "error", None) /\ Happens("raises"))
  /\ EngineRest /\ DiskRest

\* run_cover: the request is made durable before anything else.
Requested(e) ==
  /\ request' = [request EXCEPT ![Job(e)] = TRUE]
  /\ target'  = [target EXCEPT ![Job(e)] = engine[e].req.out]
  /\ snap' = [snap EXCEPT ![Job(e)] = "none"] /\ delivered' = [delivered EXCEPT ![Job(e)] = FALSE]
  /\ UNCHANGED <<file, shared>>
CoverRequest(e) ==
  /\ At(e, "cover") /\ Requested(e) /\ Goto(e, "execute")
  /\ EngineRest /\ UNCHANGED <<inbox, outbox, events>>

\* What was asked for is refused, or writing the request raises, before or after
\* the file is in its place.
CoverRefused(e) ==
  /\ At(e, "cover") /\ Happens("raises")
  /\ Requested(e) \/ DiskRest
  /\ Answer(e, "error", None)
  /\ EngineRest

\* resume_cover: the request is read again.
LoadRequest(e) ==
  /\ At(e, "resume")
  /\ IF request[Job(e)]
       THEN /\ Goto(e, "execute") /\ UNCHANGED <<inbox, outbox>>
            /\ shared' = IF \E o \in Engines \ {e} : engine[o].up /\ engine[o].at # "idle" /\ Job(o) = Job(e)
                           THEN shared \cup {Job(e)} ELSE shared
       ELSE Answer(e, "error", None) /\ UNCHANGED shared
  /\ EngineRest /\ UNCHANGED <<request, snap, delivered, target, file, events>>

\* The first line to the window; then _production_steps, which needs the
\* voice, its profile and valid controls.
Execute(e) ==
  /\ At(e, "execute")
  /\ \/ engine[e].heard /\ Goto(e, "run") /\ UNCHANGED events
     \/ ~engine[e].heard /\ Goto(e, "failing") /\ UNCHANGED events
     \/ engine[e].heard /\ Goto(e, "failing") /\ Happens("raises")
  /\ EngineRest /\ DiskRest /\ UNCHANGED <<inbox, outbox>>

Run(e) ==
  /\ At(e, "run") /\ Goto(e, "work")
  /\ snap' = [snap EXCEPT ![Job(e)] = "running"]
  /\ EngineRest /\ UNCHANGED <<request, delivered, target, file, shared, inbox, outbox, events>>

\* Mutant: a status that no reader of the snapshot knows.
FailsInterrupted(e) == snap' = [snap EXCEPT ![Job(e)] = "interrupted"] /\ Goto(e, "failing")

Fails(e) == snap' = [snap EXCEPT ![Job(e)] = "failed"] /\ Goto(e, "failing")
Reports(e, next) == IF engine[e].heard THEN Goto(e, next) /\ UNCHANGED snap ELSE Fails(e)

Written(e, whole) ==
  file' = IF target[Job(e)] \in Outputs
            THEN [file EXCEPT ![target[Job(e)]] = [by |-> Job(e), whole |-> whole]] ELSE file

\* Mutant: the delivery is cached before the file is copied.
WorkCached(e) ==
  /\ At(e, "work")
  /\ Reports(e, IF delivered[Job(e)] THEN "complete" ELSE "copying")
  /\ IF engine[e].heard /\ ~delivered[Job(e)] THEN Written(e, FALSE) ELSE UNCHANGED file
  /\ delivered' = [delivered EXCEPT ![Job(e)] = TRUE]
  /\ EngineRest /\ UNCHANGED <<request, target, shared, inbox, outbox, events>>

\* A delivery that is cached is not made again.
Work(e) ==
  /\ At(e, "work")
  /\ Reports(e, IF delivered[Job(e)] THEN "complete" ELSE "copying")
  /\ IF engine[e].heard /\ ~delivered[Job(e)] THEN Written(e, FALSE) ELSE UNCHANGED file
  /\ EngineRest /\ UNCHANGED <<request, delivered, target, shared, inbox, outbox, events>>

Copying(e) ==
  /\ At(e, "copying") /\ Written(e, TRUE) /\ Reports(e, "publish")
  /\ EngineRest /\ UNCHANGED <<request, delivered, target, shared, inbox, outbox, events>>
Publish(e) ==
  /\ At(e, "publish") /\ Reports(e, "complete")
  /\ delivered' = [delivered EXCEPT ![Job(e)] = TRUE]
  /\ EngineRest /\ UNCHANGED <<request, target, file, shared, inbox, outbox, events>>

RunFails(e) ==
  /\ engine[e].up /\ engine[e].at \in {"work", "copying", "publish", "complete", "finish"}
  /\ Happens("raises") /\ Fails(e)
  /\ EngineRest /\ UNCHANGED <<request, delivered, target, file, shared, inbox, outbox>>

\* Mutant: the completed snapshot is not saved.
CompleteUnsaved(e) ==
  /\ At(e, "complete") /\ Goto(e, "finish")
  /\ EngineRest /\ DiskRest /\ UNCHANGED <<inbox, outbox, events>>

Complete(e) ==
  /\ At(e, "complete") /\ Goto(e, "finish")
  /\ snap' = [snap EXCEPT ![Job(e)] = "completed"]
  /\ EngineRest /\ UNCHANGED <<request, delivered, target, file, shared, inbox, outbox, events>>

\* The result is read from the cache, and the request is dropped.
Finish(e) ==
  /\ At(e, "finish")
  /\ \/ /\ request' = [request EXCEPT ![Job(e)] = FALSE] /\ Answer(e, "ok", Job(e)) /\ UNCHANGED events
     \/ /\ Happens("raises") /\ Answer(e, "error", None) /\ UNCHANGED request
  /\ EngineRest /\ UNCHANGED <<snap, delivered, target, file, shared>>

\* Mutant: run_cover takes the request back whatever the job has become.
FailingForgets(e) ==
  /\ At(e, "failing")
  /\ request' = IF engine[e].req.op = "cover" THEN [request EXCEPT ![Job(e)] = FALSE] ELSE request
  /\ Answer(e, "error", None)
  /\ EngineRest /\ UNCHANGED <<snap, delivered, target, file, shared, events>>

\* run_cover takes its request back when there is no snapshot to resume.
Failing(e) ==
  /\ At(e, "failing")
  /\ request' = IF engine[e].req.op = "cover" /\ snap[Job(e)] = "none"
                  THEN [request EXCEPT ![Job(e)] = FALSE] ELSE request
  /\ Answer(e, "error", None)
  /\ EngineRest /\ UNCHANGED <<snap, delivered, target, file, shared, events>>

\* The input is at its end and there is nothing left to serve.
Exits(e) ==
  /\ At(e, "idle") /\ ~engine[e].open /\ inbox[e] = <<>>
  /\ engine' = [engine EXCEPT ![e] = Down]
  /\ EngineRest /\ DiskRest /\ UNCHANGED <<inbox, outbox, events>>

EngineStep(e) ==
  \/ Serve(e) \/ Stage(e) \/ CoverRequest(e) \/ LoadRequest(e) \/ Execute(e) \/ Run(e)
  \/ Work(e) \/ Copying(e) \/ Publish(e) \/ Complete(e) \/ Finish(e) \/ Failing(e) \/ Exits(e)

EngineDies(e) ==
  /\ engine[e].up /\ Happens("engineDies") /\ Gone(e)
  /\ EngineRest /\ DiskRest /\ UNCHANGED outbox

\* A library prints to the standard output the protocol uses.
Noise(e) ==
  /\ engine[e].up /\ engine[e].at # "idle" /\ engine[e].heard /\ Happens("noise")
  /\ outbox' = [outbox EXCEPT ![e] = Append(@, [id |-> engine[e].req.id, kind |-> "noise", job |-> None])]
  /\ EngineRest /\ DiskRest /\ UNCHANGED <<engine, inbox>>

-----------------------------------------------------------------------------
(* The client: EngineClient.call and stop *)

WindowRest == UNCHANGED <<disk, win>>

\* The id is one that no call carries, and no line of an engine that is heard.
Used == {call[t].req.id : t \in {t \in Threads : call[t].at # "none"}}
        \cup UNION {{inbox[e][i].id : i \in DOMAIN inbox[e]} \cup {outbox[e][i].id : i \in DOMAIN outbox[e]}
                    \cup (IF engine[e].at = "idle" THEN {} ELSE {engine[e].req.id}) : e \in {e \in Engines : engine[e].heard}}
NewId == CHOOSE i \in Ids : i \notin Used
Calling(op, j, out) == [at |-> "start", proc |-> None, req |-> [id |-> NewId, op |-> op, job |-> j, out |-> out]]

\* A dead engine is replaced; what its pipe still held goes with it.
Spare(e) == ~engine[e].up /\ \A t \in Threads : call[t].at \in {"write", "read"} => call[t].proc # e
CallStart(t) ==
  /\ call[t].at = "start"
  /\ IF proc # None /\ engine[proc].up
       THEN /\ call' = [call EXCEPT ![t].at = "write", ![t].proc = proc]
            /\ UNCHANGED <<pipes, proc>>
       ELSE /\ \E e \in Engines : Spare(e)
            /\ proc' = CHOOSE e \in Engines : Spare(e)
            /\ call'   = [call EXCEPT ![t].at = "write", ![t].proc = proc']
            /\ engine' = [engine EXCEPT ![proc'] = [Down EXCEPT !.up = TRUE, !.open = TRUE, !.heard = TRUE]]
            /\ outbox' = [e \in Engines |-> IF Spare(e) THEN <<>> ELSE outbox[e]]
            /\ UNCHANGED inbox
  /\ WindowRest /\ UNCHANGED <<worker, events>>

CallWrite(t) ==
  /\ call[t].at = "write" /\ engine[call[t].proc].up /\ engine[call[t].proc].open
  /\ inbox' = [inbox EXCEPT ![call[t].proc] = Append(@, call[t].req)]
  /\ call'  = [call EXCEPT ![t].at = "read"]
  /\ WindowRest /\ UNCHANGED <<engine, outbox, proc, worker, events>>

\* Mutant: the id of an answer is not compared.
AnsweredByAny(t, line) == line.kind = "ok"

Answered(t, line) == line.kind = "ok" /\ line.id = call[t].req.id

\* Mutant: a closed pipe is read again.
ReturnsOnLine(t, ok, job) ==
  LET e == call[t].proc IN
  /\ call[t].at = "read" /\ outbox[e] # <<>>
  /\ ok = Answered(t, Head(outbox[e]))
  /\ job = IF ok THEN Head(outbox[e]).job ELSE None
  /\ outbox' = [outbox EXCEPT ![e] = Tail(@)]

\* A call ends with the next line, whatever it says, or with a closed pipe.
Returns(t, ok, job) ==
  LET e == call[t].proc IN
  \/ /\ call[t].at = "write" /\ ~(engine[e].up /\ engine[e].open)
     /\ ~ok /\ job = None /\ UNCHANGED outbox
  \/ /\ call[t].at = "read" /\ outbox[e] # <<>>
     /\ ok = Answered(t, Head(outbox[e]))
     /\ job = IF ok THEN Head(outbox[e]).job ELSE None
     /\ outbox' = [outbox EXCEPT ![e] = Tail(@)]
  \/ /\ call[t].at = "read" /\ outbox[e] = <<>> /\ ~engine[e].up
     /\ ~ok /\ job = None /\ UNCHANGED outbox

-----------------------------------------------------------------------------
(* The worker thread: what its call ends with is posted to the GUI thread *)

WorkerReturns ==
  /\ \E ok \in BOOLEAN, j \in Jobs \cup {None} :
       /\ Returns("worker", ok, j)
       /\ worker' = [worker EXCEPT !.result = j,
                                   !.posted = <<IF ok THEN "succeeded" ELSE "failed", "finished">>]
  /\ call' = [call EXCEPT !["worker"] = NoCall]
  /\ WindowRest /\ UNCHANGED <<engine, inbox, proc, events>>

Busy == worker.run

-----------------------------------------------------------------------------
(* The GUI thread: one event at a time *)

Looping == win.open /\ win.gui = "loop"
GuiRest == UNCHANGED <<disk, pipes, proc, events>>

\* The thread ends with the last of them, before the window's next event;
\* the wizard turns to the page the worker was started for; an error is shown
\* unless the user has cancelled.
TakePosted ==
  /\ Looping /\ worker.posted # <<>>
  /\ LET sig == Head(worker.posted) IN
       /\ worker' = IF sig = "finished" THEN NoWorker ELSE [worker EXCEPT !.posted = Tail(@)]
       /\ win' = IF sig = "succeeded" /\ worker.shows # "none" THEN [win EXCEPT !.page = worker.shows]
                 ELSE IF sig = "failed" /\ ~win.cancelled THEN [win EXCEPT !.page = "choose"]
                 ELSE win
  /\ UNCHANGED call /\ GuiRest

\* A request made by the GUI thread itself blocks it until the answer.
Asks(w, op, then) ==
  /\ call' = [call EXCEPT !["gui"] = Calling(op, None, Inside)]
  /\ win'  = [w EXCEPT !.gui = "call", !.then = then]
  /\ UNCHANGED worker /\ GuiRest

\* Navigation is locked while a worker runs, but for the wizard.
Visit       == Looping /\ ~Busy /\ Asks([win EXCEPT !.screen = "other"], "quick", "refresh")
Settings    == Looping /\ win.screen = "other" /\ Asks(win, "quick", "refresh")
CheckUpdate == Looping /\ win.screen = "other" /\ Asks(win, "quick", "stage")
OpenProject == Looping /\ win.screen = "other" /\ ~Busy /\ Asks(win, "quick", "project")
Wizard ==
  /\ Looping /\ win.screen = "other" /\ win' = [win EXCEPT !.screen = "wizard"]
  /\ UNCHANGED <<call, worker>> /\ GuiRest

On(page) == Looping /\ win.screen = "wizard" /\ win.page = page
Turn(from, to) == On(from) /\ win' = [win EXCEPT !.page = to] /\ UNCHANGED <<call, worker>> /\ GuiRest
Turns == Turn("recommend", "preview") \/ Turn("preview", "choose") \/ Turn("result", "choose")

\* Identifiers nobody uses, that of a finished cover standing for a new one
\* when it is taken again (so that few suffice); the names that are free when the user asks.
New == {j \in Jobs : /\ ~request[j] /\ snap[j] \in {"none", "completed"}
                     /\ \A e \in Engines : engine[e].req.job # j /\ \A i \in DOMAIN inbox[e] : inbox[e][i].job # j
                     /\ \A t \in Threads : call[t].req.job # j}
\* _start_worker: nothing happens while a worker runs.
Shows(out) == IF out = Inside THEN "recommend" ELSE "result"
StartWorker(w, c, op, j, out, shows) ==
  IF Busy THEN win' = w /\ call' = c /\ UNCHANGED worker
  ELSE /\ win'    = [w EXCEPT !.cancelled = FALSE]
       /\ call'   = [c EXCEPT !["worker"] = Calling(op, j, out)]
       /\ worker' = [NoWorker EXCEPT !.run = TRUE, !.shows = shows]
Begin(w, c, out) ==
  \E j \in IF Busy THEN {None} ELSE New :
    StartWorker([w EXCEPT !.page = "processing"], c, "cover", j, out, Shows(out))

\* The project is saved first.
Preview == On("choose") /\ New # {} /\ Asks(win, "quick", "preview")

\* _available_output
Available(o) == file[o].by = None /\ \A p \in 1..(o - 1) : file[p].by # None
Full == /\ On("preview") /\ (Busy \/ New # {})
        /\ \E o \in Outputs : Available(o) /\ Begin(win, call, o)
        /\ GuiRest

GuiReturns ==
  /\ win.gui = "call"
  /\ \E ok \in BOOLEAN, j \in Jobs \cup {None} :
       LET w == [win EXCEPT !.gui = "loop", !.then = "refresh"]
           c == [call EXCEPT !["gui"] = NoCall] IN
       /\ Returns("gui", ok, j)
       /\ \/ win.then = "preview" /\ Begin(w, c, Inside)
          \/ win.then = "stage" /\ ok /\ StartWorker(w, c, "stage", None, Inside, "none")
          \/ win.then = "offer" /\ j # None /\ StartWorker([w EXCEPT !.page = "processing"], c, "resume", j, Inside, Shows(target[j]))
          \/ win.then = "project" /\ ok /\ win' = [w EXCEPT !.screen = "wizard", !.page = "choose"] /\ call' = c /\ UNCHANGED worker
          \/ ~(win.then = "preview" \/ (win.then = "project" /\ ok)) /\ win' = w /\ call' = c /\ UNCHANGED worker
  /\ UNCHANGED <<disk, engine, inbox, proc, events>>

-----------------------------------------------------------------------------
(* Cancelling, closing and opening the window *)

\* What is left when the window's process has ended, given its engines.
Exit(engines) ==
  /\ engine' = [e \in Engines |-> IF engines[e].up THEN [engines[e] EXCEPT !.open = FALSE, !.heard = FALSE] ELSE Down]
  /\ outbox' = [e \in Engines |-> <<>>]
  /\ call' = [t \in Threads |-> NoCall] /\ worker' = NoWorker /\ win' = Shut /\ proc' = None

Stopped(then, engines, current) ==
  IF then = "close" THEN Exit(engines)
  ELSE /\ win' = [win EXCEPT !.gui = "loop", !.then = "refresh", !.page = "choose", !.cancelled = TRUE, !.stopping = None]
       /\ proc' = current /\ engine' = engines /\ UNCHANGED <<call, worker, outbox>>

\* stop: the input is closed first.
Stop(then) ==
  IF proc = None \/ ~engine[proc].up
    THEN Stopped(then, engine, None)
    ELSE /\ win' = [win EXCEPT !.gui = "stop", !.then = then, !.stopping = proc, !.cancelled = (then = "cancel" \/ @)]
         /\ engine' = [engine EXCEPT ![proc].open = FALSE] /\ proc' = None
         /\ UNCHANGED <<call, worker, outbox>>
Cancel == On("processing") /\ Busy /\ Stop("cancel") /\ UNCHANGED <<disk, inbox, events>>
Close  == Looping /\ Happens("close") /\ Stop("close") /\ UNCHANGED <<disk, inbox>>

\* It has exited, or is killed after the wait.
StopEnds ==
  /\ win.gui = "stop"
  /\ Stopped(win.then, [engine EXCEPT ![win.stopping] = Down], proc)
  /\ inbox' = [inbox EXCEPT ![win.stopping] = <<>>]
  /\ UNCHANGED <<disk, events>>

AppDies == win.open /\ Happens("appDies") /\ Exit(engine) /\ UNCHANGED <<disk, inbox>>

Open ==
  /\ ~win.open
  /\ win'  = [Shut EXCEPT !.open = TRUE, !.gui = "call", !.then = "offer"]
  /\ call' = [call EXCEPT !["gui"] = Calling("offer", None, Inside)]
  /\ UNCHANGED worker /\ GuiRest

WindowStep ==
  \/ Visit \/ Settings \/ CheckUpdate \/ OpenProject \/ Wizard \/ Turns \/ Preview \/ Full
  \/ Cancel \/ Close \/ Open \/ AppDies
ClientStep(t) == CallStart(t) \/ CallWrite(t)

Next ==
  \/ \E e \in Engines : EngineStep(e) \/ CoverRefused(e) \/ RunFails(e) \/ EngineDies(e) \/ Noise(e)
  \/ \E t \in Threads : ClientStep(t)
  \/ WorkerReturns \/ GuiReturns \/ TakePosted \/ StopEnds
  \/ WindowStep

Spec == Init /\ [][Next]_vars

\* The processes and the two threads run, a thread that waits for a line gets
\* one of them in the end, and Qt gets round to every event; the user need not act.
GuiThread    == ClientStep("gui") \/ GuiReturns \/ StopEnds
WorkerThread == ClientStep("worker") \/ WorkerReturns
Fairness ==
  /\ \A e \in Engines : WF_vars(EngineStep(e))
  /\ SF_vars(GuiThread) /\ SF_vars(WorkerThread) /\ SF_vars(TakePosted)
LiveSpec == Spec /\ Fairness

-----------------------------------------------------------------------------
(* Properties *)

(***************************************************************************)
(* The worker thread's call succeeds only with the answer to its own       *)
(* request, also when the GUI thread reads from the same pipe meanwhile or *)
(* a library prints into it (the id of call): a worker that asked for a    *)
(* cover gets that cover.                                                  *)
(***************************************************************************)
AnswersMatch ==
  [][worker.posted = <<>> /\ worker'.posted # <<>> /\ Head(worker'.posted) = "succeeded" =>
       worker'.result = call["worker"].req.job]_vars

(***************************************************************************)
(* What can be resumed has its request: an unfinished cover is offered     *)
(* again and its graph can be rebuilt, whatever was killed or failed       *)
(* ("a hard kill continues", docs/architecture.md 4), as long as no two    *)
(* engines have run it at once.                                            *)
(***************************************************************************)
RecoverableHasRequest == \A j \in Jobs \ shared : Recoverable(j) => request[j]

(***************************************************************************)
(* A completed cover has been copied to the end: a delivery that was cut   *)
(* short is made again, one that is cached was whole (deliver).            *)
(***************************************************************************)
CompletedIsDelivered ==
  \A j \in Jobs \ shared :
    snap[j] = "completed" /\ target[j] \in Outputs /\ file[target[j]].by \in {j, None} => file[target[j]].whole

(***************************************************************************)
(* The result page names a cover that is complete on disk, after any       *)
(* number of cancellations, lost engines and restarts, also when it comes  *)
(* up late, over the page a cancellation had turned to (show_result).      *)
(***************************************************************************)
ResultShownIsTrue ==
  [][win'.page \in {"recommend", "result"} /\ win'.page # win.page =>
       worker.result \in shared \/ (worker.result \in Jobs /\ snap[worker.result] = "completed")]_vars

(***************************************************************************)
(* No call hangs: whatever is printed, mixed up, killed or closed, the GUI *)
(* thread comes back and the worker thread ends ("every request ends in    *)
(* one Response", docs/architecture.md 4).                                 *)
(***************************************************************************)
CallsEnd == (win.gui = "call" ~> win.gui # "call") /\ (Busy ~> ~Busy)

=============================================================================
