-------------------------- MODULE CoverSessionProofs --------------------------
(***************************************************************************)
(* What holds of the window, its engines and the covers in every state,    *)
(* for any number of covers, outputs, engines and disturbances.            *)
(***************************************************************************)
EXTENDS CoverSession, FiniteSetTheorems, SequenceTheorems, TLAPS

\* The client counts its requests: an id is never used twice (_ids).
Counted == ~IsFiniteSet(Ids) /\ IsFiniteSet(Engines)

-----------------------------------------------------------------------------
(* The inductive invariant *)

Engine == [up : BOOLEAN, open : BOOLEAN, heard : BOOLEAN, at : Phase, req : Request]
Call   == [at : {"none", "start", "write", "read"}, proc : Engines \cup {None}, req : Request]
Worker == [run : BOOLEAN, shows : {"none", "recommend", "result"}, result : Jobs \cup {None},
           posted : {<<>>, <<"finished">>, <<"succeeded", "finished">>, <<"failed", "finished">>}]
Window == [open : BOOLEAN, gui : {"loop", "call", "stop"},
           then : {"refresh", "preview", "stage", "offer", "project", "cancel", "close"},
           screen : {"wizard", "other"}, page : Page, cancelled : BOOLEAN, stopping : Engines \cup {None}]
DiskTypes ==
  /\ request \in [Jobs -> BOOLEAN] /\ snap \in [Jobs -> {"none", "running", "failed", "completed"}]
  /\ delivered \in [Jobs -> BOOLEAN] /\ target \in [Jobs -> Target]
  /\ file \in [Outputs -> [by : Jobs \cup {None}, whole : BOOLEAN]]
  /\ shared \subseteq Jobs /\ events \in 0..MaxEvents
PipeTypes ==
  engine \in [Engines -> Engine] /\ inbox \in [Engines -> Seq(Request)] /\ outbox \in [Engines -> Seq(Line)]
WindowTypes ==
  proc \in Engines \cup {None} /\ call \in [Threads -> Call] /\ worker \in Worker /\ win \in Window

\* Covers have a job, other requests none.
Fits(r) == IF r.op \in {"cover", "resume"} THEN r.job \in Jobs ELSE r.job = None

AtWork     == {"execute", "run", "work", "copying", "publish", "complete", "finish", "failing"}
Working(e) == engine[e].at \in AtWork

\* An engine that is down has nothing to do; one that is busy has a request of
\* the kind that brought it where it is.
EngineKnown(e) ==
  /\ ~engine[e].up => engine[e] = Down /\ inbox[e] = <<>>
  /\ engine[e].at = "idle" => engine[e].req = NoRequest
  /\ engine[e].at \in {"stage", "cover", "resume"} => engine[e].req.op = engine[e].at
  /\ Working(e) => engine[e].req.op \in {"cover", "resume"}
  /\ Fits(engine[e].req) /\ \A i \in DOMAIN inbox[e] : Fits(inbox[e][i])

\* A thread makes the requests it is for, to an engine the client has started.
CallsKnown ==
  /\ \A t \in Threads : /\ call[t].at = "none" => call[t] = NoCall
                        /\ call[t].at \in {"write", "read"} => call[t].proc \in Engines
                        /\ Fits(call[t].req)
  /\ call["gui"].at # "none" => call["gui"].req.op \in {"quick", "offer"}
  /\ call["worker"].at # "none" =>
       /\ worker.run /\ worker.posted = <<>> /\ call["worker"].req.op \in {"stage", "cover", "resume"}
       /\ worker.shows # "none" => call["worker"].req.op # "stage"
  /\ worker.run => (call["worker"].at = "none" => worker.posted # <<>>)
  /\ ~worker.run => worker = NoWorker
  /\ proc # None => (engine[proc].up => engine[proc].heard)

\* What the window does, and what it has when it is closed.
WindowKnown ==
  /\ win.gui = "call" <=> call["gui"].at # "none"
  /\ win.gui = "call" => win.then \in {"refresh", "preview", "stage", "offer", "project"}
  /\ win.gui = "stop" => win.stopping \in Engines /\ win.then \in {"cancel", "close"}
  /\ ~win.open => win = Shut /\ worker = NoWorker /\ call = [t \in Threads |-> NoCall] /\ proc = None
  /\ win.gui = "call" => (win.then = "offer" => ~worker.run)

\* Where a cover waits that was asked for and not begun: with the thread that
\* asks, in a pipe, or with an engine that has just read it.
Places == (Engines \X Nat) \cup {<<None, 0>>}
Waits(p) ==
  IF p = <<None, 0>> THEN call["worker"].at \in {"start", "write"} /\ call["worker"].req.op = "cover"
  ELSE IF p[2] = 0 THEN engine[p[1]].at = "cover"
  ELSE p[2] \in DOMAIN inbox[p[1]] /\ inbox[p[1]][p[2]].op = "cover"
JobAt(p) ==
  IF p = <<None, 0>> THEN call["worker"].req.job
  ELSE IF p[2] = 0 THEN Job(p[1]) ELSE inbox[p[1]][p[2]].job

\* A cover is asked for once, and nobody works on it before.
AskedOnce == \A p, q \in Places : Waits(p) /\ Waits(q) /\ JobAt(p) = JobAt(q) => p = q
NotBegun  == \A p \in Places : Waits(p) =>
               ~request[JobAt(p)] /\ \A e \in Engines : Working(e) => Job(e) # JobAt(p)

\* Two engines work on one job only if it is shared.
OneEngine == \A d, e \in Engines : d # e /\ Working(d) /\ Working(e) /\ Job(d) = Job(e) => Job(e) \in shared

\* What is on disk of the job an engine works on, and of any job.
Copied(j) == target[j] \in Outputs => file[target[j]].by # None /\ (file[target[j]].by = j => file[target[j]].whole)
WorkKnown(e) ==
  Working(e) /\ Job(e) \notin shared =>
    /\ engine[e].at # "failing" => request[Job(e)]
    /\ engine[e].at = "finish" => snap[Job(e)] = "completed"
    /\ engine[e].at = "publish" => Copied(Job(e))
    /\ engine[e].at \in {"complete", "finish"} => delivered[Job(e)]
DiskKnown(j) ==
  j \notin shared =>
    /\ Recoverable(j) => request[j]
    /\ snap[j] = "completed" => delivered[j]
    /\ delivered[j] => Copied(j)

JobsKnown == OneEngine /\ (\A e \in Engines : WorkKnown(e)) /\ (\A j \in Jobs : DiskKnown(j))

\* Nobody has the job, and nothing is left of its request.
Free(j) ==
  /\ ~request[j] /\ \A e \in Engines : Working(e) => Job(e) # j
  /\ \A p \in Places : Waits(p) => JobAt(p) # j

\* A job whose completion was answered stays as it is.
Settled(j) == j \in Jobs /\ (j \in shared \/ (snap[j] = "completed" /\ Free(j)))

\* Whatever has the id of a call is that call's request or an answer to it.
Lines(s) == {s[i] : i \in DOMAIN s}
Speaks(t, e) == call[t].at # "none" /\ (engine[e].heard \/ (call[t].at \in {"write", "read"} /\ call[t].proc = e))
Answers(t, l) ==
  /\ call[t].req.op # "offer" => l.job = call[t].req.job
  /\ call[t].req.op \in {"cover", "resume"} => Settled(l.job)
OwnAnswers(t, e) ==
  Speaks(t, e) =>
    /\ \A r \in Lines(inbox[e]) : r.id = call[t].req.id => r = call[t].req
    /\ engine[e].at # "idle" => (engine[e].req.id = call[t].req.id => engine[e].req = call[t].req)
    /\ \A l \in Lines(outbox[e]) : l.kind = "ok" /\ l.id = call[t].req.id => Answers(t, l)
TwoIds == call["gui"].at # "none" /\ call["worker"].at # "none" => call["gui"].req.id # call["worker"].req.id
PostedKnown ==
  worker.posted = <<"succeeded", "finished">> /\ worker.shows # "none" => Settled(worker.result)

Frame == DiskTypes /\ PipeTypes /\ WindowTypes /\ (\A e \in Engines : EngineKnown(e)) /\ CallsKnown /\ WindowKnown
Known == Frame /\ AskedOnce /\ NotBegun /\ JobsKnown
Own   == \A t \in Threads : \A e \in Engines : OwnAnswers(t, e)
IInv  == Known /\ Own /\ TwoIds /\ PostedKnown

-----------------------------------------------------------------------------
(* The processes, the pipes and the window *)

\* What the proofs use of the constants.
LEMMA Bounds == None \notin Jobs /\ None \notin Engines /\ MaxEvents \in Nat /\ NOutputs \in Nat
  BY NoneAssumption, CountsAssumption

\* The request of nobody is one.
LEMMA Blank ==
  ASSUME Counted
  PROVE  NoRequest \in Request /\ Fits(NoRequest) /\ NoRequest.op = "quick" /\ NoRequest.job = None
<1>1. Ids # {}
  BY FS_EmptySet DEF Counted
<1>2. (CHOOSE i \in Ids : TRUE) \in Ids
  BY <1>1
<1> QED
  BY <1>2 DEF NoRequest, Request, Fits, Op, Target, Inside

\* What is idle is of its type.
LEMMA Quiet ==
  ASSUME Counted
  PROVE  /\ Down \in Engine /\ [Down EXCEPT !.up = TRUE, !.open = TRUE, !.heard = TRUE] \in Engine
         /\ NoCall \in Call /\ NoCall.at = "none" /\ NoWorker \in Worker /\ Shut \in Window
         /\ Down.at = "idle" /\ ~Down.up /\ ~Down.heard /\ Down.req = NoRequest /\ NoCall.req = NoRequest
         /\ ~NoWorker.run /\ NoWorker.posted = <<>> /\ NoWorker.shows = "none"
<1>1. NoRequest \in Request
  BY Blank
<1>2. Down \in Engine /\ [Down EXCEPT !.up = TRUE, !.open = TRUE, !.heard = TRUE] \in Engine
  BY <1>1 DEF Down, Engine, Phase
<1>3. NoCall \in Call
  BY <1>1 DEF NoCall, Call
<1>4. NoWorker \in Worker
  BY DEF NoWorker, Worker
<1>5. Shut \in Window
  BY DEF Shut, Window, Page
<1> QED
  BY <1>2, <1>3, <1>4, <1>5 DEF Down, NoCall, NoWorker

\* The parts of the frame besides the disk.
Frames == PipeTypes /\ WindowTypes /\ (\A e \in Engines : EngineKnown(e)) /\ CallsKnown /\ WindowKnown

\* A step of one engine, which keeps its listener, is none of the window's.
LEMMA EngineAlone ==
  ASSUME Frame, NEW e \in Engines, NEW n \in Engine, engine' = [engine EXCEPT ![e] = n],
         inbox' \in [Engines -> Seq(Request)], outbox' \in [Engines -> Seq(Line)],
         \A d \in Engines \ {e} : inbox'[d] = inbox[d],
         n.up => engine[e].up /\ n.heard = engine[e].heard,
         UNCHANGED <<proc, call, worker, win>>, EngineKnown(e)'
  PROVE  Frames'
<1>1. engine \in [Engines -> Engine] /\ engine' \in [Engines -> Engine] /\ engine'[e] = n
  BY DEF Frame, PipeTypes
<1>2. PipeTypes' /\ WindowTypes'
  BY <1>1 DEF Frame, PipeTypes, WindowTypes
<1>3. ASSUME NEW d \in Engines PROVE EngineKnown(d)'
  <2>1. CASE d = e
    BY <2>1
  <2>2. CASE d # e
    <3>1. engine'[d] = engine[d] /\ inbox'[d] = inbox[d] /\ EngineKnown(d)
      BY <1>1, <2>2 DEF Frame
    <3> QED
      BY <3>1 DEF EngineKnown, Working
  <2> QED
    BY <2>1, <2>2
<1>4. proc # None => (engine'[proc].up => engine'[proc].heard)
  BY <1>1 DEF Frame, CallsKnown, WindowTypes
<1>5. CallsKnown' /\ WindowKnown'
  BY <1>4 DEF Frame, CallsKnown, WindowKnown
<1> QED
  BY <1>2, <1>3, <1>5 DEF Frames

\* An engine goes on with the job it has.
LEMMA Moves ==
  ASSUME Frame, NEW e \in Engines, NEW p \in AtWork, Goto(e, p), Working(e) \/ engine[e].at \in {"cover", "resume"},
         UNCHANGED <<inbox, outbox, proc, call, worker, win>>
  PROVE  /\ Frames' /\ engine'[e].at = p /\ engine'[e].req = engine[e].req /\ Job(e)' = Job(e) /\ Job(e) \in Jobs
         /\ \A d \in Engines \ {e} : engine'[d] = engine[d]
         /\ engine' = [engine EXCEPT ![e] = engine'[e]] /\ engine'[e].heard = engine[e].heard
<1> DEFINE n == [engine[e] EXCEPT !.at = p]
<1>1. engine \in [Engines -> Engine] /\ inbox \in [Engines -> Seq(Request)] /\ outbox \in [Engines -> Seq(Line)]
      /\ EngineKnown(e)
  BY DEF Frame, PipeTypes
<1>2. engine[e] \in Engine /\ p \in Phase
  BY <1>1 DEF AtWork, Phase
<1>3. /\ n \in Engine /\ n.at = p /\ n.req = engine[e].req /\ n.up = engine[e].up /\ n.heard = engine[e].heard
  BY <1>2 DEF Engine
<1> HIDE DEF n
<1>4. engine' = [engine EXCEPT ![e] = n]
  BY <1>1 DEF Goto, n
<1>5. engine'[e] = n /\ \A d \in Engines \ {e} : engine'[d] = engine[d]
  BY <1>1, <1>3, <1>4
<1>6. engine[e].up /\ engine[e].req.op \in {"cover", "resume"} /\ Fits(engine[e].req)
      /\ \A i \in DOMAIN inbox[e] : Fits(inbox[e][i])
  <2>1. engine[e].at # "idle"
    BY DEF Working, AtWork
  <2> QED
    BY <1>1, <2>1, Quiet DEF EngineKnown, Down
<1>7. Job(e) \in Jobs
  BY <1>6 DEF Job, Fits
<1>8. EngineKnown(e)'
  BY <1>3, <1>5, <1>6 DEF EngineKnown, Working, AtWork
<1>9. Frames'
  BY <1>1, <1>3, <1>4, <1>8, EngineAlone
<1> QED
  BY <1>3, <1>4, <1>5, <1>7, <1>9 DEF Job

\* An engine that is not there has nothing to do.
LEMMA Leaves ==
  ASSUME Counted, Frame, NEW e \in Engines, engine' = [engine EXCEPT ![e] = Down],
         inbox' \in [Engines -> Seq(Request)], inbox'[e] = <<>>, \A d \in Engines \ {e} : inbox'[d] = inbox[d],
         UNCHANGED <<outbox, proc, call, worker, win>>
  PROVE  Frames'
<1>1. engine'[e] = Down /\ outbox \in [Engines -> Seq(Line)]
  BY DEF Frame, PipeTypes
<1>2. EngineKnown(e)'
  BY <1>1, Quiet, Blank DEF EngineKnown, Working, AtWork
<1> QED
  BY <1>1, <1>2, Quiet, EngineAlone

\* An engine answers, or ends because nobody listens.
LEMMA Answering ==
  ASSUME Counted, Frame, NEW e \in Engines, NEW r \in Request, NEW kind \in {"ok", "error", "noise"},
         NEW j \in Jobs \cup {None}, NEW rest \in Seq(Request), \A i \in DOMAIN rest : Fits(rest[i]),
         engine[e].up, AnswerTo(e, r, kind, j, rest), UNCHANGED <<proc, call, worker, win>>
  PROVE  Frames'
<1>1. engine \in [Engines -> Engine] /\ inbox \in [Engines -> Seq(Request)] /\ outbox \in [Engines -> Seq(Line)]
  BY DEF Frame, PipeTypes
<1>2. CASE engine[e].heard
  <2> DEFINE n    == [engine[e] EXCEPT !.at = "idle", !.req = NoRequest]
             line == [id |-> r.id, kind |-> kind, job |-> j]
  <2>1. engine[e] \in Engine /\ NoRequest \in Request /\ Fits(NoRequest)
    BY <1>1, Blank
  <2>2. n \in Engine /\ n.at = "idle" /\ n.req = NoRequest /\ n.up = engine[e].up /\ n.heard = engine[e].heard
    BY <2>1 DEF Engine, Phase
  <2>3. line \in Line
    BY DEF Line, Request
  <2>4. /\ engine' = [engine EXCEPT ![e].at = "idle", ![e].req = NoRequest]
        /\ outbox' = [outbox EXCEPT ![e] = Append(@, line)] /\ inbox' = [inbox EXCEPT ![e] = rest]
    BY <1>2 DEF AnswerTo
  <2>5. engine' = [engine EXCEPT ![e] = n]
    BY <1>1, <2>4
  <2> HIDE DEF n, line
  <2>6. outbox[e] \in Seq(Line) /\ Append(outbox[e], line) \in Seq(Line)
    BY <1>1, <2>3, AppendProperties
  <2>7. outbox' \in [Engines -> Seq(Line)] /\ inbox' \in [Engines -> Seq(Request)] /\ inbox'[e] = rest
        /\ \A d \in Engines \ {e} : inbox'[d] = inbox[d]
    BY <1>1, <2>4, <2>6
  <2>8. engine'[e] = n
    BY <1>1, <2>5
  <2>9. EngineKnown(e)'
    BY <2>1, <2>2, <2>7, <2>8 DEF EngineKnown, Working, AtWork
  <2> QED
    BY <2>2, <2>5, <2>7, <2>9, EngineAlone
<1>3. CASE ~engine[e].heard
  <2>1. engine' = [engine EXCEPT ![e] = Down] /\ inbox' = [inbox EXCEPT ![e] = <<>>] /\ UNCHANGED outbox
    BY <1>3 DEF AnswerTo, Gone
  <2>2. inbox' \in [Engines -> Seq(Request)] /\ inbox'[e] = <<>> /\ \A d \in Engines \ {e} : inbox'[d] = inbox[d]
    BY <1>1, <2>1, EmptySeq
  <2> QED
    BY <2>1, <2>2, Leaves
<1> QED
  BY <1>2, <1>3

\* The result of a delivery is a file of the job.
LEMMA FileWritten ==
  ASSUME Frame, NEW e \in Engines, NEW whole \in BOOLEAN, Job(e) \in Jobs, Written(e, whole)
  PROVE  file' \in [Outputs -> [by : Jobs \cup {None}, whole : BOOLEAN]]
  BY DEF Frame, DiskTypes, Written

\* An engine takes the next line.
LEMMA ServeFrame ==
  ASSUME Counted, Frame, NEW e \in Engines, Serve(e)
  PROVE  Frame'
<1> DEFINE r == Head(inbox[e])  rest == Tail(inbox[e])
<1>1. engine \in [Engines -> Engine] /\ inbox \in [Engines -> Seq(Request)] /\ outbox \in [Engines -> Seq(Line)]
      /\ EngineKnown(e) /\ engine[e].up /\ inbox[e] # <<>>
  BY DEF Frame, PipeTypes, Serve, At
<1>2. r \in Request /\ rest \in Seq(Request) /\ Fits(r) /\ \A i \in DOMAIN rest : Fits(rest[i])
  <2>1. inbox[e] \in Seq(Request)
    BY <1>1
  <2>2. /\ DOMAIN inbox[e] = 1..Len(inbox[e]) /\ Len(inbox[e]) \in Nat /\ r = inbox[e][1] /\ Len(inbox[e]) # 0
        /\ r \in Request /\ rest \in Seq(Request) /\ Len(rest) = Len(inbox[e]) - 1
        /\ \A i \in 1..Len(rest) : rest[i] = inbox[e][i + 1]
    BY <1>1, <2>1, HeadTailProperties, LenProperties, EmptySeq
  <2>3. DOMAIN rest = 1..Len(rest)
    BY <2>2, LenProperties
  <2>4. \A i \in DOMAIN inbox[e] : Fits(inbox[e][i])
    BY <1>1 DEF EngineKnown
  <2> HIDE DEF r, rest
  <2>5. ASSUME NEW i \in DOMAIN rest PROVE Fits(rest[i])
    <3>1. i + 1 \in DOMAIN inbox[e] /\ rest[i] = inbox[e][i + 1]
      BY <2>2, <2>3, <2>5
    <3> QED
      BY <2>4, <3>1
  <2>6. 1 \in DOMAIN inbox[e]
    BY <2>2
  <2>7. Fits(r)
    BY <2>2, <2>4, <2>6
  <2> QED
    BY <2>2, <2>5, <2>7
<1>3. DiskTypes' /\ UNCHANGED <<proc, call, worker, win>>
  BY DEF Serve, DiskRest, EngineRest, disk, Frame, DiskTypes
<1>4. Frames'
  <2>1. CASE \E j \in Jobs \cup {None} : AnswerTo(e, r, "ok", j, rest)
    <3> HIDE DEF r, rest
    <3> QED
      BY <1>1, <1>2, <1>3, <2>1, Answering
  <2>2. CASE r.op \in {"stage", "cover", "resume"} /\ engine' = [engine EXCEPT ![e].at = r.op, ![e].req = r]
             /\ inbox' = [inbox EXCEPT ![e] = rest] /\ UNCHANGED outbox
    <3> HIDE DEF r, rest
    <3> DEFINE n == [engine[e] EXCEPT !.at = r.op, !.req = r]
    <3>1. /\ n \in Engine /\ n.at = r.op /\ n.req = r /\ n.up = engine[e].up /\ n.heard = engine[e].heard
          /\ engine' = [engine EXCEPT ![e] = n]
      BY <1>1, <1>2, <2>2 DEF Engine, Phase
    <3> HIDE DEF n
    <3>2. inbox' \in [Engines -> Seq(Request)] /\ inbox'[e] = rest /\ \A d \in Engines \ {e} : inbox'[d] = inbox[d]
      BY <1>1, <1>2, <2>2
    <3>3. engine'[e] = n
      BY <1>1, <3>1
    <3>4. EngineKnown(e)'
      BY <1>1, <1>2, <2>2, <3>1, <3>2, <3>3 DEF EngineKnown, Working, AtWork
    <3> QED
      BY <1>1, <1>3, <2>2, <3>1, <3>2, <3>4, EngineAlone
  <2>3. \A j \in Offers : j \in Jobs \cup {None}
    BY DEF Offers
  <2> QED
    BY <2>1, <2>2, <2>3 DEF Serve
<1> QED
  BY <1>3, <1>4 DEF Frame, Frames

\* An engine works on a cover, answers and ends.
LEMMA EngineFrame ==
  ASSUME Counted, Frame, NEW e \in Engines,
         EngineStep(e) \/ CoverRefused(e) \/ RunFails(e) \/ EngineDies(e) \/ Noise(e)
  PROVE  Frame'
<1>1. engine \in [Engines -> Engine] /\ inbox \in [Engines -> Seq(Request)] /\ outbox \in [Engines -> Seq(Line)]
      /\ EngineKnown(e)
  BY DEF Frame, PipeTypes
<1>2. engine[e].req \in Request /\ (Working(e) \/ engine[e].at \in {"cover", "resume"} => Job(e) \in Jobs)
  BY <1>1 DEF Engine, EngineKnown, Fits, Job
<1>3. inbox[e] \in Seq(Request) /\ \A i \in DOMAIN inbox[e] : Fits(inbox[e][i])
  BY <1>1 DEF EngineKnown
<1>4. \A kind \in {"ok", "error", "noise"}, j \in Jobs \cup {None} :
        Answer(e, kind, j) /\ engine[e].up /\ UNCHANGED <<proc, call, worker, win>> => Frames'
  BY <1>2, <1>3, Answering DEF Answer
<1>5. \A p \in AtWork : Goto(e, p) /\ (Working(e) \/ engine[e].at \in {"cover", "resume"})
                        /\ UNCHANGED <<inbox, outbox, proc, call, worker, win>> => Frames'
  BY Moves
<1>6. events \in 0..MaxEvents /\ MaxEvents \in Nat
  BY Bounds DEF Frame, DiskTypes
<1>7. CASE Serve(e)
  BY <1>7, ServeFrame
<1>8. CASE Stage(e) \/ CoverRefused(e)
  <2>1. DiskTypes'
    <3>1. CASE Stage(e) \/ (CoverRefused(e) /\ DiskRest)
      BY <1>6, <1>8, <3>1 DEF Stage, CoverRefused, DiskRest, disk, Frame, DiskTypes, Happens
    <3>2. CASE CoverRefused(e) /\ Requested(e)
      <4>1. engine[e].req.out \in Target /\ Job(e) \in Jobs /\ events' \in 0..MaxEvents
        BY <1>2, <1>6, <3>2 DEF Request, CoverRefused, At, Happens
      <4> QED
        BY <3>2, <4>1 DEF Requested, Frame, DiskTypes
    <3> QED
      BY <1>8, <3>1, <3>2 DEF CoverRefused
  <2>2. Frames'
    BY <1>4, <1>8 DEF Stage, CoverRefused, At, EngineRest
  <2> QED
    BY <2>1, <2>2 DEF Frame, Frames
<1>9. CASE CoverRequest(e)
  <2>1. engine[e].req.out \in Target /\ Job(e) \in Jobs
    BY <1>2, <1>9 DEF Request, CoverRequest, At
  <2>2. DiskTypes'
    BY <1>9, <2>1 DEF CoverRequest, Requested, Frame, DiskTypes
  <2>3. Frames'
    BY <1>5, <1>9 DEF CoverRequest, At, EngineRest, AtWork
  <2> QED
    BY <2>2, <2>3 DEF Frame, Frames
<1>10. CASE LoadRequest(e)
  <2>1. Job(e) \in Jobs
    BY <1>2, <1>10 DEF LoadRequest, At
  <2>2. DiskTypes'
    BY <1>10, <2>1 DEF LoadRequest, Frame, DiskTypes
  <2>3. Frames'
    BY <1>4, <1>5, <1>10 DEF LoadRequest, At, EngineRest, AtWork
  <2> QED
    BY <2>2, <2>3 DEF Frame, Frames
<1>11. CASE Execute(e)
  <2>1. DiskTypes'
    BY <1>6, <1>11 DEF Execute, DiskRest, disk, Frame, DiskTypes, Happens
  <2>2. Frames'
    BY <1>5, <1>11 DEF Execute, At, EngineRest, AtWork, Working
  <2> QED
    BY <2>1, <2>2 DEF Frame, Frames
<1>12. CASE Run(e) \/ Work(e) \/ Copying(e) \/ Publish(e) \/ RunFails(e) \/ Complete(e)
  <2>1. Working(e) /\ UNCHANGED <<inbox, outbox, proc, call, worker, win>>
        /\ \E p \in AtWork : Goto(e, p)
    BY <1>12 DEF Run, Work, Copying, Publish, RunFails, Complete, At, Working, AtWork, EngineRest, Reports, Fails
  <2>2. Frames' /\ Job(e) \in Jobs
    BY <1>2, <1>5, <2>1
  <2>3. file' \in [Outputs -> [by : Jobs \cup {None}, whole : BOOLEAN]]
    BY <1>12, <2>2, FileWritten DEF Run, Work, Copying, Publish, RunFails, Complete, Frame, DiskTypes
  <2>4. /\ snap' \in [Jobs -> {"none", "running", "failed", "completed"}] /\ delivered' \in [Jobs -> BOOLEAN]
        /\ UNCHANGED <<request, target, shared>>
    BY <1>12, <2>2 DEF Run, Work, Copying, Publish, RunFails, Complete, Reports, Fails, Frame, DiskTypes
  <2>5. events' \in 0..MaxEvents
    <3>1. UNCHANGED events \/ Happens("raises")
      BY <1>12 DEF Run, Work, Copying, Publish, RunFails, Complete
    <3> QED
      BY <1>6, <3>1 DEF Happens
  <2>6. DiskTypes'
    BY <2>3, <2>4, <2>5 DEF Frame, DiskTypes
  <2> QED
    BY <2>2, <2>6 DEF Frame, Frames
<1>13. CASE Finish(e) \/ Failing(e)
  <2>1. Job(e) \in Jobs
    BY <1>2, <1>13 DEF Finish, Failing, At, Working, AtWork
  <2>2. DiskTypes'
    <3>1. UNCHANGED events \/ Happens("raises")
      BY <1>13 DEF Finish, Failing
    <3>2. events' \in 0..MaxEvents
      BY <1>6, <3>1 DEF Happens
    <3>3. UNCHANGED <<snap, delivered, target, file, shared>> /\ request' \in [Jobs -> BOOLEAN]
      BY <1>13, <2>1 DEF Finish, Failing, Frame, DiskTypes
    <3> QED
      BY <3>2, <3>3 DEF Frame, DiskTypes
  <2>3. Frames'
    BY <1>4, <1>13, <2>1 DEF Finish, Failing, At, EngineRest
  <2> QED
    BY <2>2, <2>3 DEF Frame, Frames
<1>14. CASE Exits(e) \/ EngineDies(e)
  <2>1. DiskTypes'
    BY <1>6, <1>14 DEF Exits, EngineDies, DiskRest, disk, Frame, DiskTypes, Happens
  <2>2. /\ engine' = [engine EXCEPT ![e] = Down] /\ UNCHANGED <<outbox, proc, call, worker, win>>
        /\ (inbox' = inbox /\ inbox[e] = <<>>) \/ inbox' = [inbox EXCEPT ![e] = <<>>]
    BY <1>14 DEF Exits, EngineDies, Gone, EngineRest
  <2>3. inbox' \in [Engines -> Seq(Request)] /\ inbox'[e] = <<>> /\ \A d \in Engines \ {e} : inbox'[d] = inbox[d]
    BY <1>1, <2>2, EmptySeq
  <2>4. Frames'
    BY <2>2, <2>3, Leaves
  <2> QED
    BY <2>1, <2>4 DEF Frame, Frames
<1>15. CASE Noise(e)
  <2> DEFINE line == [id |-> engine[e].req.id, kind |-> "noise", job |-> None]
  <2>1. DiskTypes' /\ UNCHANGED <<engine, inbox, proc, call, worker, win>>
        /\ outbox' = [outbox EXCEPT ![e] = Append(@, line)]
    BY <1>6, <1>15 DEF Noise, DiskRest, disk, EngineRest, Frame, DiskTypes, Happens
  <2>2. line \in Line
    BY <1>2 DEF Line, Request
  <2> HIDE DEF line
  <2>3. Append(outbox[e], line) \in Seq(Line)
    BY <1>1, <2>2, AppendProperties
  <2>4. outbox' \in [Engines -> Seq(Line)]
    BY <1>1, <2>1, <2>3
  <2>5. Frames'
    BY <2>1, <2>4 DEF Frames, Frame, PipeTypes, WindowTypes, EngineKnown, Working, CallsKnown, WindowKnown
  <2> QED
    BY <2>1, <2>5 DEF Frame, Frames
<1> QED
  BY <1>7, <1>8, <1>9, <1>10, <1>11, <1>12, <1>13, <1>14, <1>15 DEF EngineStep

\* The ids in a pipe are finitely many.
LEMMA FewIds ==
  ASSUME NEW S, NEW s \in Seq(S)
  PROVE  IsFiniteSet({s[i].id : i \in DOMAIN s})
<1> DEFINE T == {s[i].id : i \in DOMAIN s}
           f == [i \in DOMAIN s |-> s[i].id]
<1>1. IsFiniteSet(DOMAIN s)
  <2>1. DOMAIN s = 1..Len(s) /\ Len(s) \in Nat
    BY LenProperties
  <2> QED
    BY <2>1, FS_Interval
<1>2. f \in Surjection(DOMAIN s, T)
  BY DEF Surjection
<1> QED
  BY <1>1, <1>2, FS_Surjection

\* There is always an id that was not used, and NewId is one.
LEMMA Fresh ==
  ASSUME Counted, Frame
  PROVE  NewId \in Ids /\ NewId \notin Used
<1> DEFINE C    == {call[t].req.id : t \in {t \in Threads : call[t].at # "none"}}
           H    == {e \in Engines : engine[e].heard}
           X(e) == {inbox[e][i].id : i \in DOMAIN inbox[e]} \cup {outbox[e][i].id : i \in DOMAIN outbox[e]}
                   \cup (IF engine[e].at = "idle" THEN {} ELSE {engine[e].req.id})
           All  == {X(e) : e \in H}
           f    == [e \in H |-> X(e)]
<1>1. IsFiniteSet(C)
  <2>1. C \subseteq {call["gui"].req.id} \cup {call["worker"].req.id}
    BY DEF Threads
  <2>2. IsFiniteSet({call["gui"].req.id} \cup {call["worker"].req.id})
    BY FS_Singleton, FS_Union
  <2> QED
    BY <2>1, <2>2, FS_Subset
<1>2. ASSUME NEW e \in Engines PROVE IsFiniteSet(X(e))
  <2>1. inbox[e] \in Seq(Request) /\ outbox[e] \in Seq(Line)
    BY DEF Frame, PipeTypes
  <2>2. IsFiniteSet({inbox[e][i].id : i \in DOMAIN inbox[e]}) /\ IsFiniteSet({outbox[e][i].id : i \in DOMAIN outbox[e]})
    BY <2>1, FewIds
  <2>3. IsFiniteSet(IF engine[e].at = "idle" THEN {} ELSE {engine[e].req.id})
    BY FS_Singleton, FS_EmptySet
  <2> QED
    BY <2>2, <2>3, FS_Union
<1>3. IsFiniteSet(H)
  BY FS_Subset DEF Counted
<1>4. f \in Surjection(H, All)
  BY DEF Surjection
<1>5. IsFiniteSet(All)
  BY <1>3, <1>4, FS_Surjection
<1>6. \A T \in All : IsFiniteSet(T)
  BY <1>2
<1>7. IsFiniteSet(UNION All)
  BY <1>5, <1>6, FS_UNION
<1>8. Used = C \cup UNION All
  BY DEF Used
<1>9. IsFiniteSet(Used)
  BY <1>1, <1>7, <1>8, FS_Union
<1>10. \E i \in Ids : i \notin Used
  BY <1>9, FS_Subset DEF Counted
<1> QED
  BY <1>10 DEF NewId

\* A call that begins is one.
LEMMA CallBegins ==
  ASSUME Counted, Frame, NEW op \in Op, NEW j \in Jobs \cup {None}, NEW out \in Target,
         IF op \in {"cover", "resume"} THEN j \in Jobs ELSE j = None
  PROVE  LET c == Calling(op, j, out) IN
         /\ c \in Call /\ c.at = "start" /\ Fits(c.req) /\ c.req.op = op /\ c.req.job = j /\ c.req.id = NewId
<1>1. NewId \in Ids
  BY Fresh
<1>2. [id |-> NewId, op |-> op, job |-> j, out |-> out] \in Request
  BY <1>1 DEF Request
<1> QED
  BY <1>2 DEF Calling, Call, Fits

\* A call that ends has taken a line at most.
LEMMA Returning ==
  ASSUME Frame, NEW t \in Threads, NEW ok \in BOOLEAN, NEW j \in Jobs \cup {None}, Returns(t, ok, j)
  PROVE  outbox' \in [Engines -> Seq(Line)] /\ call[t].at \in {"write", "read"} /\ call[t].proc \in Engines
<1>1. call[t].at \in {"write", "read"}
  BY DEF Returns
<1>2. call[t].proc \in Engines /\ outbox \in [Engines -> Seq(Line)]
  BY <1>1 DEF Frame, CallsKnown, PipeTypes
<1>3. outbox[call[t].proc] # <<>> => Tail(outbox[call[t].proc]) \in Seq(Line)
  BY <1>2, HeadTailProperties
<1> QED
  BY <1>1, <1>2, <1>3 DEF Returns

\* A call goes on.
LEMMA CallGoesOn ==
  ASSUME Frame, NEW t \in Threads, call[t].at # "none", NEW c \in Call, c.at # "none", c.req = call[t].req,
         c.at \in {"write", "read"} => c.proc \in Engines, call' = [call EXCEPT ![t] = c],
         proc' \in Engines \cup {None}, proc' # None => (engine'[proc'].up => engine'[proc'].heard),
         UNCHANGED <<worker, win>>
  PROVE  WindowTypes' /\ CallsKnown' /\ WindowKnown'
<1>1. call \in [Threads -> Call]
  BY DEF Frame, WindowTypes
<1>2. call'[t] = c /\ \A u \in Threads \ {t} : call'[u] = call[u]
  BY <1>1
<1>3. WindowTypes'
  BY <1>1, <1>2 DEF Frame, WindowTypes
<1>4. CallsKnown'
  BY <1>2 DEF Frame, CallsKnown, Threads
<1>5. win.open
  BY Quiet DEF Frame, WindowKnown, NoCall
<1>6. WindowKnown'
  BY <1>2, <1>5 DEF Frame, WindowKnown, Threads
<1> QED
  BY <1>3, <1>4, <1>6

\* The two halves of sending a request.
LEMMA ClientFrame ==
  ASSUME Counted, Frame, NEW t \in Threads, ClientStep(t)
  PROVE  Frame'
<1>1. /\ engine \in [Engines -> Engine] /\ inbox \in [Engines -> Seq(Request)] /\ outbox \in [Engines -> Seq(Line)]
      /\ call \in [Threads -> Call] /\ call[t] \in Call
  BY DEF Frame, PipeTypes, WindowTypes
<1>2. call[t].at # "none" /\ UNCHANGED <<disk, win, worker, events>>
  BY DEF ClientStep, CallStart, CallWrite, WindowRest
<1>3. DiskTypes'
  BY <1>2 DEF Frame, DiskTypes, disk
<1>4. CASE CallStart(t) /\ proc # None /\ engine[proc].up
  <2> DEFINE c == [call[t] EXCEPT !.at = "write", !.proc = proc]
  <2>1. proc \in Engines /\ UNCHANGED <<engine, inbox, outbox, proc>> /\ call' = [call EXCEPT ![t] = c]
    BY <1>1, <1>4 DEF CallStart, Frame, WindowTypes, pipes
  <2>2. c \in Call /\ c.at = "write" /\ c.proc = proc /\ c.req = call[t].req
    BY <1>1, <2>1 DEF Call
  <2> HIDE DEF c
  <2>3. WindowTypes' /\ CallsKnown' /\ WindowKnown'
    BY <1>2, <2>1, <2>2, CallGoesOn DEF Frame, CallsKnown
  <2>4. PipeTypes' /\ \A e \in Engines : EngineKnown(e)'
    BY <2>1 DEF Frame, PipeTypes, EngineKnown, Working
  <2> QED
    BY <1>3, <2>3, <2>4 DEF Frame
<1>5. CASE CallStart(t) /\ ~(proc # None /\ engine[proc].up)
  <2> DEFINE c == [call[t] EXCEPT !.at = "write", !.proc = proc']
             n == [Down EXCEPT !.up = TRUE, !.open = TRUE, !.heard = TRUE]
  <2>1. PICK e \in Engines : Spare(e)
    BY <1>5 DEF CallStart
  <2>2. proc' \in Engines /\ Spare(proc')
    BY <1>5, <2>1 DEF CallStart
  <2>3. /\ call' = [call EXCEPT ![t] = c] /\ engine' = [engine EXCEPT ![proc'] = n] /\ UNCHANGED inbox
        /\ outbox' = [d \in Engines |-> IF Spare(d) THEN <<>> ELSE outbox[d]]
    BY <1>1, <1>5 DEF CallStart
  <2>4. c \in Call /\ c.at = "write" /\ c.proc = proc' /\ c.req = call[t].req
    BY <1>1, <2>2 DEF Call
  <2>5. n \in Engine /\ n.up /\ n.heard /\ n.at = "idle" /\ n.req = NoRequest
    BY Quiet DEF Down
  <2> HIDE DEF c, n
  <2>6. engine'[proc'] = n /\ \A d \in Engines \ {proc'} : engine'[d] = engine[d]
    BY <1>1, <2>2, <2>3
  <2>7. WindowTypes' /\ CallsKnown' /\ WindowKnown'
    BY <1>2, <2>2, <2>3, <2>4, <2>5, <2>6, CallGoesOn
  <2>8. PipeTypes'
    BY <1>1, <2>3, <2>5, EmptySeq DEF PipeTypes
  <2>9. ASSUME NEW d \in Engines PROVE EngineKnown(d)'
    <3>1. EngineKnown(d)
      BY DEF Frame
    <3>2. CASE d = proc'
      BY <2>3, <2>5, <2>6, <3>1, <3>2, Blank DEF EngineKnown, Working, AtWork
    <3>3. CASE d # proc'
      BY <2>3, <2>6, <3>1, <3>3 DEF EngineKnown, Working
    <3> QED
      BY <3>2, <3>3
  <2> QED
    BY <1>3, <2>7, <2>8, <2>9 DEF Frame
<1>6. CASE CallWrite(t)
  <2> DEFINE c == [call[t] EXCEPT !.at = "read"]  e == call[t].proc
  <2>1. /\ call' = [call EXCEPT ![t] = c] /\ inbox' = [inbox EXCEPT ![e] = Append(@, call[t].req)]
        /\ UNCHANGED <<engine, outbox, proc>> /\ engine[e].up
    BY <1>1, <1>6 DEF CallWrite
  <2>2. e \in Engines /\ Fits(call[t].req) /\ call[t].req \in Request
    BY <1>1, <1>6 DEF CallWrite, Frame, CallsKnown, Call
  <2>3. c \in Call /\ c.at = "read" /\ c.proc = e /\ c.req = call[t].req
    BY <1>1 DEF Call
  <2>4. inbox[e] \in Seq(Request) /\ Append(inbox[e], call[t].req) \in Seq(Request)
    BY <1>1, <2>2, AppendProperties
  <2> HIDE DEF c, e
  <2>5. WindowTypes' /\ CallsKnown' /\ WindowKnown'
    BY <1>2, <2>1, <2>2, <2>3, CallGoesOn DEF Frame, CallsKnown, WindowTypes
  <2>6. PipeTypes'
    BY <1>1, <2>1, <2>4 DEF PipeTypes
  <2>7. ASSUME NEW d \in Engines PROVE EngineKnown(d)'
    <3>1. EngineKnown(d)
      BY DEF Frame
    <3>2. CASE d = e
      <4>1. inbox'[d] = Append(inbox[e], call[t].req)
        BY <1>1, <2>1, <3>2
      <4>2. \A i \in DOMAIN inbox'[d] : Fits(inbox'[d][i])
        <5>1. Len(inbox'[d]) = Len(inbox[e]) + 1 /\ DOMAIN inbox'[d] = 1..Len(inbox'[d]) /\ Len(inbox[e]) \in Nat
              /\ DOMAIN inbox[e] = 1..Len(inbox[e])
              /\ inbox'[d][Len(inbox[e]) + 1] = call[t].req /\ \A i \in 1..Len(inbox[e]) : inbox'[d][i] = inbox[e][i]
          BY <2>2, <2>4, <4>1, AppendProperties, LenProperties
        <5>2. ASSUME NEW i \in DOMAIN inbox'[d] PROVE Fits(inbox'[d][i])
          <6>1. i = Len(inbox[e]) + 1 \/ i \in 1..Len(inbox[e])
            BY <5>1
          <6> QED
            BY <2>2, <3>1, <3>2, <5>1, <6>1 DEF EngineKnown
        <5> QED
          BY <5>2
      <4> QED
        BY <2>1, <3>1, <3>2, <4>2 DEF EngineKnown, Working
    <3>3. CASE d # e
      <4>1. inbox'[d] = inbox[d]
        BY <1>1, <2>1, <3>3
      <4> QED
        BY <2>1, <3>1, <4>1 DEF EngineKnown, Working
    <3> QED
      BY <3>2, <3>3
  <2> QED
    BY <1>3, <2>5, <2>6, <2>7 DEF Frame
<1> QED
  BY <1>4, <1>5, <1>6 DEF ClientStep

\* A step of the window alone.
LEMMA WindowAlone ==
  ASSUME Frame, UNCHANGED <<disk, engine, inbox>>, events' \in 0..MaxEvents, outbox' \in [Engines -> Seq(Line)],
         WindowTypes', CallsKnown', WindowKnown'
  PROVE  Frame'
  BY DEF Frame, DiskTypes, disk, PipeTypes, EngineKnown, Working

\* The worker's call ends, and what it posted is taken.
LEMMA WorkerFrame ==
  ASSUME Counted, Frame, WorkerReturns \/ TakePosted
  PROVE  Frame'
<1>1. /\ call \in [Threads -> Call] /\ worker \in Worker /\ win \in Window /\ proc \in Engines \cup {None}
      /\ outbox \in [Engines -> Seq(Line)] /\ CallsKnown /\ WindowKnown /\ events \in 0..MaxEvents
  BY DEF Frame, WindowTypes, PipeTypes, DiskTypes
<1>2. NoCall \in Call /\ NoCall.at = "none" /\ Fits(NoCall.req) /\ NoWorker \in Worker /\ NoWorker.posted = <<>>
  BY Quiet, Blank
<1>3. CASE WorkerReturns
  <2>1. PICK ok \in BOOLEAN, j \in Jobs \cup {None} :
          /\ Returns("worker", ok, j)
          /\ worker' = [worker EXCEPT !.result = j, !.posted = <<IF ok THEN "succeeded" ELSE "failed", "finished">>]
    BY <1>3 DEF WorkerReturns
  <2>2. outbox' \in [Engines -> Seq(Line)] /\ call["worker"].at \in {"write", "read"}
    BY <2>1, Returning DEF Threads
  <2>3. worker' \in Worker /\ worker'.posted # <<>> /\ worker'.run = worker.run /\ worker.run
    BY <1>1, <2>1, <2>2 DEF Worker, CallsKnown
  <2>4. /\ call' = [call EXCEPT !["worker"] = NoCall] /\ UNCHANGED <<disk, engine, inbox, proc, events, win>>
    BY <1>3 DEF WorkerReturns, WindowRest
  <2>5. call' \in [Threads -> Call] /\ call'["worker"] = NoCall /\ call'["gui"] = call["gui"]
    BY <1>1, <1>2, <2>4 DEF Threads
  <2>6. win.open
    BY <1>1, <1>2, <2>2 DEF WindowKnown, Threads
  <2>7. CallsKnown'
    BY <1>1, <1>2, <2>3, <2>4, <2>5 DEF CallsKnown, Threads
  <2>8. WindowKnown'
    BY <1>1, <2>3, <2>4, <2>5, <2>6 DEF WindowKnown
  <2> QED
    BY <1>1, <2>2, <2>3, <2>4, <2>5, <2>7, <2>8, WindowAlone DEF WindowTypes
<1>4. CASE TakePosted
  <2> DEFINE sig == Head(worker.posted)
  <2>1. Looping /\ worker.posted # <<>> /\ UNCHANGED <<call, disk, engine, inbox, outbox, proc, events>>
    BY <1>4 DEF TakePosted, GuiRest, pipes
  <2>2. call["worker"].at = "none"
    BY <1>1, <2>1 DEF CallsKnown
  <2>3. worker.posted \in {<<"finished">>, <<"succeeded", "finished">>, <<"failed", "finished">>}
    BY <1>1, <2>1 DEF Worker
  <2>4. sig # "finished" => Tail(worker.posted) = <<"finished">>
    <3>1. Head(<<"finished">>) = "finished"
      OBVIOUS
    <3>2. Tail(<<"succeeded", "finished">>) = <<"finished">> /\ Tail(<<"failed", "finished">>) = <<"finished">>
      OBVIOUS
    <3> QED
      BY <2>3, <3>1, <3>2
  <2>5. worker' = NoWorker \/ (worker' = [worker EXCEPT !.posted = <<"finished">>] /\ sig # "finished")
    BY <1>4, <2>4 DEF TakePosted
  <2>6. worker' \in Worker /\ (worker' = NoWorker \/ (worker'.posted # <<>> /\ worker'.run))
    <3>1. worker.run
      BY <1>1, <1>2, <2>1 DEF CallsKnown
    <3> HIDE DEF sig
    <3>2. CASE worker' = NoWorker
      BY <1>2, <3>2
    <3>3. CASE worker' = [worker EXCEPT !.posted = <<"finished">>]
      <4>1. worker'.run /\ worker'.posted = <<"finished">> /\ worker' \in Worker
        BY <1>1, <3>1, <3>3 DEF Worker
      <4>2. <<"finished">> # <<>>
        OBVIOUS
      <4> QED
        BY <4>1, <4>2
    <3> QED
      BY <2>5, <3>2, <3>3
  <2>7. \/ win' = [win EXCEPT !.page = worker.shows] /\ worker.shows \in Page
        \/ win' = [win EXCEPT !.page = "choose"] \/ win' = win
    BY <1>1, <1>4 DEF TakePosted, Worker, Page
  <2>8. win' \in Window /\ win'.open = win.open /\ win'.gui = win.gui /\ win'.then = win.then /\ win'.stopping = win.stopping
    BY <1>1, <2>7 DEF Window, Page
  <2>9. win.open /\ win.gui = "loop"
    BY <2>1 DEF Looping
  <2>10. CallsKnown'
    <3> HIDE DEF sig
    <3>1. ~worker'.run => worker' = NoWorker
      BY <2>6
    <3>2. worker'.run => worker'.posted # <<>>
      BY <2>6, Quiet
    <3> QED
      BY <1>1, <2>1, <2>2, <3>1, <3>2 DEF CallsKnown, Threads
  <2>11. WindowKnown'
    BY <1>1, <2>1, <2>8, <2>9 DEF WindowKnown
  <2> QED
    BY <1>1, <2>1, <2>6, <2>8, <2>10, <2>11, WindowAlone DEF WindowTypes
<1> QED
  BY <1>3, <1>4

\* The GUI thread asks something, and waits.
LEMMA AsksFrame ==
  ASSUME Counted, Frame, NEW w \in Window, w.open, NEW op \in {"quick", "offer"},
         NEW then \in {"refresh", "preview", "stage", "offer", "project"}, then = "offer" => ~worker.run,
         call["gui"].at = "none",
         call' = [call EXCEPT !["gui"] = Calling(op, None, Inside)], win' = [w EXCEPT !.gui = "call", !.then = then],
         UNCHANGED worker, GuiRest
  PROVE  Frame'
<1> DEFINE c == Calling(op, None, Inside)
<1>1. /\ call \in [Threads -> Call] /\ worker \in Worker /\ proc \in Engines \cup {None}
      /\ outbox \in [Engines -> Seq(Line)] /\ CallsKnown /\ WindowKnown /\ events \in 0..MaxEvents
  BY DEF Frame, WindowTypes, PipeTypes, DiskTypes
<1>2. c \in Call /\ c.at = "start" /\ Fits(c.req) /\ c.req.op = op
  <2>1. op \in Op /\ Inside \in Target
    BY DEF Op, Target
  <2> QED
    BY <2>1, CallBegins
<1> HIDE DEF c
<1>3. call' = [call EXCEPT !["gui"] = c] /\ UNCHANGED <<disk, engine, inbox, outbox, proc, events, worker>>
  BY DEF GuiRest, pipes, c
<1>4. call' \in [Threads -> Call] /\ call'["gui"] = c /\ call'["worker"] = call["worker"]
  BY <1>1, <1>2, <1>3 DEF Threads
<1>5. win' \in Window /\ win'.open /\ win'.gui = "call" /\ win'.then = then
  BY DEF Window
<1>6. CallsKnown'
  BY <1>1, <1>2, <1>3, <1>4 DEF CallsKnown, Threads
<1>7. WindowKnown'
  BY <1>1, <1>2, <1>3, <1>4, <1>5 DEF WindowKnown
<1> QED
  BY <1>1, <1>3, <1>4, <1>5, <1>6, <1>7, WindowAlone DEF WindowTypes

\* A call the worker begins.
LEMMA WorkerCall ==
  ASSUME Counted, Frame, NEW op \in {"stage", "cover", "resume"}, NEW j \in Jobs \cup {None}, NEW out \in Target,
         IF op = "stage" THEN j = None ELSE j \in Jobs
  PROVE  Calling(op, j, out) \in Call /\ Calling(op, j, out).at = "start" /\ Fits(Calling(op, j, out).req)
         /\ Calling(op, j, out).req.op = op
<1>1. op \in Op /\ IF op \in {"cover", "resume"} THEN j \in Jobs ELSE j = None
  BY DEF Op
<1> QED
  BY <1>1, CallBegins

\* A worker is started, unless one runs: the GUI thread is back.
LEMMA StartFrame ==
  ASSUME Counted, Frame, NEW w \in Window, w.open, w.gui = "loop", NEW c \in [Threads -> Call],
         c["gui"].at = "none", c["gui"] = NoCall, c["worker"] = call["worker"],
         NEW op \in {"stage", "cover", "resume"}, NEW j \in Jobs \cup {None},
         Busy \/ (IF op = "stage" THEN j = None ELSE j \in Jobs), NEW out \in Target,
         NEW shows \in {"none", "recommend", "result"}, shows # "none" => op # "stage",
         StartWorker(w, c, op, j, out, shows),
         UNCHANGED <<disk, engine, inbox, proc, events>>, outbox' \in [Engines -> Seq(Line)]
  PROVE  Frame'
<1>1. /\ call \in [Threads -> Call] /\ worker \in Worker /\ proc \in Engines \cup {None}
      /\ CallsKnown /\ WindowKnown /\ events \in 0..MaxEvents
  BY DEF Frame, WindowTypes, DiskTypes
<1>2. NoCall \in Call /\ NoCall.at = "none" /\ Fits(NoCall.req)
  BY Quiet, Blank
<1>3. CASE Busy
  <2>1. win' = w /\ call' = c /\ UNCHANGED worker /\ worker.run
    BY <1>3 DEF StartWorker, Busy
  <2>2. CallsKnown'
    BY <1>1, <1>2, <2>1 DEF CallsKnown, Threads
  <2>3. WindowKnown'
    BY <1>1, <2>1 DEF WindowKnown
  <2> QED
    BY <1>1, <2>1, <2>2, <2>3, WindowAlone DEF WindowTypes
<1>4. CASE ~Busy
  <2> DEFINE n == Calling(op, j, out)
  <2>1. n \in Call /\ n.at = "start" /\ Fits(n.req) /\ n.req.op = op
    BY <1>4, WorkerCall
  <2>2. win' = [w EXCEPT !.cancelled = FALSE] /\ call' = [c EXCEPT !["worker"] = n]
        /\ worker' = [NoWorker EXCEPT !.run = TRUE, !.shows = shows]
    BY <1>4 DEF StartWorker
  <2> HIDE DEF n
  <2>3. win' \in Window /\ win'.open /\ win'.gui = "loop"
    BY <2>2 DEF Window
  <2>4. worker' \in Worker /\ worker'.run /\ worker'.posted = <<>> /\ worker'.shows = shows
    BY <2>2, Quiet DEF Worker, NoWorker
  <2>5. call' \in [Threads -> Call] /\ call'["worker"] = n /\ call'["gui"] = NoCall
    BY <2>1, <2>2 DEF Threads
  <2>6. CallsKnown'
    BY <1>1, <1>2, <2>1, <2>4, <2>5 DEF CallsKnown, Threads
  <2>7. WindowKnown'
    BY <1>2, <2>3, <2>5 DEF WindowKnown
  <2> QED
    BY <1>1, <2>3, <2>4, <2>5, <2>6, <2>7, WindowAlone DEF WindowTypes
<1> QED
  BY <1>3, <1>4

\* What the user does in the window.
LEMMA UserFrame ==
  ASSUME Counted, Frame, Visit \/ Settings \/ CheckUpdate \/ OpenProject \/ Wizard \/ Turns \/ Preview \/ Full \/ Open
  PROVE  Frame'
<1>1. /\ call \in [Threads -> Call] /\ worker \in Worker /\ win \in Window /\ proc \in Engines \cup {None}
      /\ outbox \in [Engines -> Seq(Line)] /\ CallsKnown /\ WindowKnown /\ events \in 0..MaxEvents
  BY DEF Frame, WindowTypes, PipeTypes, DiskTypes
<1>2. Looping => win.open /\ win.gui = "loop" /\ call["gui"].at = "none" /\ call["gui"] = NoCall
  BY <1>1 DEF Looping, WindowKnown, CallsKnown, Threads
<1>3. CASE Visit \/ Settings \/ CheckUpdate \/ OpenProject \/ Preview
  <2>1. PICK w \in {win, [win EXCEPT !.screen = "other"]}, then \in {"refresh", "preview", "stage", "project"} :
          Looping /\ Asks(w, "quick", then)
    BY <1>3 DEF Visit, Settings, CheckUpdate, OpenProject, Preview, On
  <2>2. w \in Window /\ w.open
    BY <1>1, <1>2, <2>1 DEF Window
  <2> QED
    BY <1>2, <2>1, <2>2, AsksFrame DEF Asks
<1>4. CASE Wizard \/ Turns
  <2>1. Looping /\ UNCHANGED <<call, worker, disk, engine, inbox, outbox, proc, events>>
    BY <1>4 DEF Wizard, Turns, Turn, On, GuiRest, pipes
  <2>2. win' = [win EXCEPT !.screen = "wizard"] \/ \E to \in {"preview", "choose"} : win' = [win EXCEPT !.page = to]
    BY <1>4 DEF Wizard, Turns, Turn
  <2>3. win' \in Window /\ win'.open = win.open /\ win'.gui = win.gui /\ win'.then = win.then
    BY <1>1, <2>2 DEF Window, Page
  <2>4. CallsKnown' /\ WindowKnown'
    BY <1>1, <1>2, <2>1, <2>3 DEF CallsKnown, WindowKnown
  <2> QED
    BY <1>1, <2>1, <2>3, <2>4, WindowAlone DEF WindowTypes
<1>5. CASE Full
  <2>1. PICK o \in Outputs : Begin(win, call, o)
    BY <1>5 DEF Full
  <2>2. PICK j \in IF Busy THEN {None} ELSE New :
          StartWorker([win EXCEPT !.page = "processing"], call, "cover", j, o, Shows(o))
    BY <2>1 DEF Begin
  <2>3. Looping /\ UNCHANGED <<disk, engine, inbox, outbox, proc, events>>
    BY <1>5 DEF Full, On, GuiRest, pipes
  <2>4. [win EXCEPT !.page = "processing"] \in Window /\ [win EXCEPT !.page = "processing"].open
        /\ [win EXCEPT !.page = "processing"].gui = "loop"
    BY <1>1, <1>2, <2>3 DEF Window, Page
  <2>5. o \in Target /\ Shows(o) \in {"none", "recommend", "result"} /\ j \in Jobs \cup {None} /\ (Busy \/ j \in Jobs)
    BY <2>2 DEF Target, Shows, New
  <2> DEFINE w == [win EXCEPT !.page = "processing"]
  <2> HIDE DEF w
  <2>6. w \in Window /\ w.open /\ w.gui = "loop" /\ StartWorker(w, call, "cover", j, o, Shows(o))
    BY <2>2, <2>4 DEF w
  <2>7. call["gui"].at = "none" /\ call["gui"] = NoCall
    BY <1>2, <2>3
  <2> QED
    BY <1>1, <2>3, <2>5, <2>6, <2>7, StartFrame
<1>6. CASE Open
  <2>1. ~win.open /\ win' = [[Shut EXCEPT !.open = TRUE] EXCEPT !.gui = "call", !.then = "offer"]
        /\ call' = [call EXCEPT !["gui"] = Calling("offer", None, Inside)] /\ UNCHANGED worker /\ GuiRest
    BY <1>6 DEF Open, Shut
  <2>2. [Shut EXCEPT !.open = TRUE] \in Window /\ [Shut EXCEPT !.open = TRUE].open
    BY DEF Shut, Window, Page
  <2>3. call["gui"].at = "none" /\ ~worker.run
    BY <1>1, <2>1, Quiet DEF WindowKnown, Threads
  <2> QED
    BY <2>1, <2>2, <2>3, AsksFrame
<1> QED
  BY <1>3, <1>4, <1>5, <1>6

\* The GUI thread has its answer, and goes on with what it asked for.
LEMMA GuiFrame ==
  ASSUME Counted, Frame, GuiReturns
  PROVE  Frame'
<1> DEFINE w == [win EXCEPT !.gui = "loop", !.then = "refresh"]
           c == [call EXCEPT !["gui"] = NoCall]
<1>1. /\ call \in [Threads -> Call] /\ worker \in Worker /\ win \in Window /\ proc \in Engines \cup {None}
      /\ CallsKnown /\ WindowKnown /\ events \in 0..MaxEvents /\ target \in [Jobs -> Target]
  BY DEF Frame, WindowTypes, DiskTypes
<1>2. win.gui = "call" /\ UNCHANGED <<disk, engine, inbox, proc, events>>
  BY DEF GuiReturns
<1>3. PICK ok \in BOOLEAN, j \in Jobs \cup {None} :
        /\ Returns("gui", ok, j)
        /\ \/ win.then = "preview" /\ Begin(w, c, Inside)
           \/ win.then = "stage" /\ ok /\ StartWorker(w, c, "stage", None, Inside, "none")
           \/ win.then = "offer" /\ j # None /\ StartWorker([w EXCEPT !.page = "processing"], c, "resume", j, Inside, Shows(target[j]))
           \/ win.then = "project" /\ ok /\ win' = [w EXCEPT !.screen = "wizard", !.page = "choose"] /\ call' = c /\ UNCHANGED worker
           \/ ~(win.then = "preview" \/ (win.then = "project" /\ ok)) /\ win' = w /\ call' = c /\ UNCHANGED worker
  BY DEF GuiReturns
<1>4. outbox' \in [Engines -> Seq(Line)] /\ win.open
  BY <1>1, <1>2, <1>3, Returning, Quiet DEF Threads, Shut, WindowKnown
<1>5. c \in [Threads -> Call] /\ c["gui"] = NoCall /\ c["gui"].at = "none" /\ c["worker"] = call["worker"]
  BY <1>1, Quiet DEF Threads
<1>6. w \in Window /\ w.open /\ w.gui = "loop"
  BY <1>1, <1>4 DEF Window
<1>7. [w EXCEPT !.page = "processing"] \in Window /\ [w EXCEPT !.page = "processing"].open
      /\ [w EXCEPT !.page = "processing"].gui = "loop"
  BY <1>6 DEF Window, Page
<1> DEFINE v == [w EXCEPT !.page = "processing"]
<1>8. v \in Window /\ v.open /\ v.gui = "loop"
  BY <1>7
<1>9. [w EXCEPT !.screen = "wizard", !.page = "choose"] \in Window
      /\ [w EXCEPT !.screen = "wizard", !.page = "choose"].open
      /\ [w EXCEPT !.screen = "wizard", !.page = "choose"].gui = "loop"
  BY <1>6 DEF Window, Page
<1>10. Inside \in Target /\ \A o \in Target : Shows(o) \in {"none", "recommend", "result"}
  BY DEF Target, Shows
<1>11. Fits(NoCall.req)
  BY Blank, Quiet
<1> HIDE DEF w, c
<1>12. CASE win.then = "preview" /\ Begin(w, c, Inside)
  <2>1. PICK i \in IF Busy THEN {None} ELSE New : StartWorker(v, c, "cover", i, Inside, Shows(Inside))
    BY <1>12 DEF Begin
  <2>2. i \in Jobs \cup {None} /\ (Busy \/ i \in Jobs)
    BY <2>1 DEF New
  <2> HIDE DEF v
  <2> QED
    BY <1>2, <1>4, <1>5, <1>8, <1>10, <2>1, <2>2, StartFrame
<1>13. CASE ok /\ StartWorker(w, c, "stage", None, Inside, "none")
  BY <1>2, <1>4, <1>5, <1>6, <1>10, <1>13, StartFrame
<1>14. CASE j # None /\ StartWorker([w EXCEPT !.page = "processing"], c, "resume", j, Inside, Shows(target[j]))
  <2>1. j \in Jobs /\ target[j] \in Target /\ Shows(target[j]) \in {"none", "recommend", "result"}
    BY <1>1, <1>10, <1>14
  <2>2. StartWorker(v, c, "resume", j, Inside, Shows(target[j]))
    BY <1>14
  <2> HIDE DEF v
  <2> QED
    BY <1>2, <1>4, <1>5, <1>8, <1>10, <2>1, <2>2, StartFrame
<1>15. CASE \/ win' = [w EXCEPT !.screen = "wizard", !.page = "choose"] /\ call' = c /\ UNCHANGED worker
            \/ win' = w /\ call' = c /\ UNCHANGED worker
  <2>1. win' \in Window /\ win'.open /\ win'.gui = "loop" /\ call' = c /\ UNCHANGED worker
    BY <1>6, <1>9, <1>15
  <2>2. CallsKnown'
    BY <1>1, <1>2, <1>5, <1>11, <2>1 DEF CallsKnown, Threads
  <2>3. WindowKnown'
    BY <1>2, <1>5, <2>1 DEF WindowKnown
  <2> QED
    BY <1>1, <1>2, <1>4, <1>5, <2>1, <2>2, <2>3, WindowAlone DEF WindowTypes
<1> QED
  BY <1>3, <1>12, <1>13, <1>14, <1>15

\* An engine is told to stop, or is stopped, or its window is gone.
LEMMA Loses ==
  ASSUME Counted, Frame, NEW e \in Engines, engine' \in [Engines -> Engine], inbox' \in [Engines -> Seq(Request)],
         \/ engine'[e] = Down /\ (inbox'[e] = <<>> \/ (~engine[e].up /\ inbox'[e] = inbox[e]))
         \/ /\ engine'[e].up /\ engine'[e].at = engine[e].at /\ engine'[e].req = engine[e].req /\ inbox'[e] = inbox[e]
            /\ engine[e].up
         \/ engine'[e] = engine[e] /\ inbox'[e] = inbox[e]
  PROVE  EngineKnown(e)'
<1>1. EngineKnown(e)
  BY DEF Frame
<1>2. CASE engine'[e] = Down /\ inbox'[e] = <<>>
  BY <1>2, Quiet, Blank DEF EngineKnown, Working, AtWork
<1>3. CASE engine'[e] = Down /\ ~engine[e].up /\ inbox'[e] = inbox[e]
  <2>1. inbox'[e] = <<>>
    BY <1>1, <1>3 DEF EngineKnown
  <2> QED
    BY <1>2, <1>3, <2>1
<1>4. CASE engine'[e].up /\ engine'[e].at = engine[e].at /\ engine'[e].req = engine[e].req /\ inbox'[e] = inbox[e] /\ engine[e].up
  BY <1>1, <1>4 DEF EngineKnown, Working
<1>5. CASE engine'[e] = engine[e] /\ inbox'[e] = inbox[e]
  BY <1>1, <1>5 DEF EngineKnown, Working
<1> QED
  BY <1>2, <1>3, <1>4, <1>5

\* The window is gone: its engines are left to themselves.
LEMMA ExitFrame ==
  ASSUME Counted, Frame, NEW es \in [Engines -> Engine], Exit(es), inbox' \in [Engines -> Seq(Request)], UNCHANGED disk,
         events' \in 0..MaxEvents,
         \A e \in Engines : (es[e] = engine[e] /\ inbox'[e] = inbox[e]) \/ (es[e] = Down /\ inbox'[e] = <<>>)
  PROVE  Frame'
<1>1. /\ engine' = [e \in Engines |-> IF es[e].up THEN [es[e] EXCEPT !.open = FALSE, !.heard = FALSE] ELSE Down]
      /\ outbox' = [e \in Engines |-> <<>>] /\ call' = [t \in Threads |-> NoCall] /\ worker' = NoWorker
      /\ win' = Shut /\ proc' = None
  BY DEF Exit
<1>2. Down \in Engine /\ NoCall \in Call /\ NoWorker \in Worker /\ Shut \in Window /\ ~Down.up
      /\ NoCall.at = "none" /\ Fits(NoCall.req) /\ NoWorker.posted = <<>> /\ ~NoWorker.run
  BY Quiet, Blank
<1>3. ASSUME NEW e \in Engines PROVE engine'[e] \in Engine
  <2>1. es[e] \in Engine
    OBVIOUS
  <2>2. [es[e] EXCEPT !.open = FALSE, !.heard = FALSE] \in Engine
    BY <2>1 DEF Engine
  <2>3. engine'[e] = IF es[e].up THEN [es[e] EXCEPT !.open = FALSE, !.heard = FALSE] ELSE Down
    BY <1>1
  <2> QED
    BY <1>2, <2>2, <2>3
<1>4. engine' \in [Engines -> Engine] /\ outbox' \in [Engines -> Seq(Line)]
  <2>1. \A e \in Engines : outbox'[e] \in Seq(Line)
    BY <1>1, EmptySeq
  <2> QED
    BY <1>1, <1>3, <2>1
<1>5. WindowTypes'
  BY <1>1, <1>2 DEF WindowTypes
<1>6. ASSUME NEW e \in Engines PROVE EngineKnown(e)'
  <2>1. es[e] \in Engine
    OBVIOUS
  <2>2. CASE es[e].up
    <3>1. engine'[e] = [es[e] EXCEPT !.open = FALSE, !.heard = FALSE]
      BY <1>1, <2>2
    <3>2. engine'[e].up /\ engine'[e].at = es[e].at /\ engine'[e].req = es[e].req
      BY <2>1, <2>2, <3>1 DEF Engine
    <3>3. es[e] = engine[e] /\ inbox'[e] = inbox[e]
      BY <1>2, <2>2
    <3> QED
      BY <1>4, <2>2, <3>2, <3>3, Loses
  <2>3. CASE ~es[e].up
    <3>1. engine'[e] = Down
      BY <1>1, <2>3
    <3> QED
      BY <1>4, <2>3, <3>1, Loses
  <2> QED
    BY <2>2, <2>3
<1>7. CallsKnown' /\ WindowKnown'
  <2>1. \A t \in Threads : call'[t] = NoCall
    BY <1>1
  <2>2. CallsKnown'
    BY <1>1, <1>2, <2>1 DEF CallsKnown, Threads
  <2>3. ~Shut.open /\ Shut.gui = "loop"
    BY DEF Shut
  <2> QED
    BY <1>1, <1>2, <2>1, <2>2, <2>3 DEF WindowKnown, Threads
<1>8. DiskTypes'
  BY DEF Frame, DiskTypes, disk
<1> QED
  BY <1>4, <1>5, <1>6, <1>7, <1>8 DEF Frame, PipeTypes

\* The window is back from stopping its engine.
LEMMA BackFrame ==
  ASSUME Counted, Frame, win.open, call["gui"].at = "none", NEW p \in Engines \cup {None},
         p # None => (engine'[p].up => engine'[p].heard),
         win' = [win EXCEPT !.gui = "loop", !.then = "refresh", !.page = "choose", !.cancelled = TRUE, !.stopping = None],
         proc' = p, engine' \in [Engines -> Engine], inbox' \in [Engines -> Seq(Request)],
         \A e \in Engines : EngineKnown(e)', UNCHANGED <<call, worker, outbox, disk, events>>
  PROVE  Frame'
<1>1. win \in Window
  BY DEF Frame, WindowTypes
<1>2. win' \in Window /\ win'.open /\ win'.gui = "loop"
  BY <1>1 DEF Window, Page
<1>3. CallsKnown'
  BY DEF Frame, CallsKnown
<1>4. WindowKnown'
  BY <1>2 DEF WindowKnown
<1> QED
  BY <1>2, <1>3, <1>4 DEF Frame, DiskTypes, disk, PipeTypes, WindowTypes

\* The engine is told to stop.
LEMMA StopFrame ==
  ASSUME Counted, Frame, Cancel \/ Close
  PROVE  Frame'
<1>1. /\ engine \in [Engines -> Engine] /\ inbox \in [Engines -> Seq(Request)] /\ outbox \in [Engines -> Seq(Line)]
      /\ call \in [Threads -> Call] /\ worker \in Worker /\ win \in Window /\ proc \in Engines \cup {None}
      /\ CallsKnown /\ WindowKnown /\ events \in 0..MaxEvents /\ MaxEvents \in Nat
  BY Bounds DEF Frame, WindowTypes, PipeTypes, DiskTypes
<1>2. win.open /\ win.gui = "loop" /\ call["gui"].at = "none"
  BY <1>1 DEF Cancel, Close, On, Looping, WindowKnown, CallsKnown, Threads
<1>3. UNCHANGED <<disk, inbox>> /\ events' \in 0..MaxEvents /\ (Cancel => UNCHANGED events)
      /\ \E then \in {"cancel", "close"} : Stop(then) /\ (then = "cancel" => UNCHANGED events)
  BY <1>1 DEF Cancel, Close, Happens
<1>4. PICK then \in {"cancel", "close"} : Stop(then) /\ (then = "cancel" => UNCHANGED events)
  BY <1>3
<1>5. CASE proc = None \/ ~engine[proc].up
  <2>1. Stopped(then, engine, None)
    BY <1>4, <1>5 DEF Stop
  <2>2. CASE then = "close"
    <3>1. Exit(engine)
      BY <2>1, <2>2 DEF Stopped
    <3> QED
      BY <1>1, <1>3, <3>1, ExitFrame
  <2>3. CASE then # "close"
    <3>1. /\ win' = [win EXCEPT !.gui = "loop", !.then = "refresh", !.page = "choose", !.cancelled = TRUE, !.stopping = None]
          /\ proc' = None /\ engine' = engine /\ UNCHANGED <<call, worker, outbox>>
      BY <2>1, <2>3 DEF Stopped
    <3>2. \A e \in Engines : EngineKnown(e)'
      BY <1>3, <3>1 DEF Frame, EngineKnown, Working
    <3> QED
      BY <1>1, <1>2, <1>3, <1>4, <2>3, <3>1, <3>2, BackFrame
  <2> QED
    BY <2>2, <2>3
<1>6. CASE proc # None /\ engine[proc].up
  <2>1. /\ win' = [win EXCEPT !.gui = "stop", !.then = then, !.stopping = proc, !.cancelled = (then = "cancel" \/ @)]
        /\ engine' = [engine EXCEPT ![proc].open = FALSE] /\ proc' = None /\ UNCHANGED <<call, worker, outbox>>
    BY <1>4, <1>6 DEF Stop
  <2>2. proc \in Engines /\ engine[proc] \in Engine
    BY <1>1, <1>6
  <2>3. /\ engine' \in [Engines -> Engine] /\ engine'[proc].up /\ engine'[proc].at = engine[proc].at
        /\ engine'[proc].req = engine[proc].req /\ \A e \in Engines \ {proc} : engine'[e] = engine[e]
    BY <1>1, <1>6, <2>1, <2>2 DEF Engine
  <2>4. ASSUME NEW e \in Engines PROVE EngineKnown(e)'
    BY <1>1, <1>3, <1>6, <2>3, Loses
  <2>5. win' \in Window /\ win'.open /\ win'.gui = "stop" /\ win'.then = then /\ win'.stopping = proc
    BY <1>1, <1>2, <2>1, <2>2 DEF Window
  <2>6. CallsKnown'
    BY <1>1, <2>1 DEF CallsKnown
  <2>7. WindowKnown'
    BY <1>2, <2>1, <2>2, <2>5 DEF WindowKnown
  <2>8. DiskTypes'
    BY <1>3 DEF Frame, DiskTypes, disk
  <2> QED
    BY <1>1, <1>3, <2>1, <2>3, <2>4, <2>5, <2>6, <2>7, <2>8 DEF Frame, PipeTypes, WindowTypes
<1> QED
  BY <1>5, <1>6

\* The engine has stopped.
LEMMA EndFrame ==
  ASSUME Counted, Frame, StopEnds
  PROVE  Frame'
<1> DEFINE es == [engine EXCEPT ![win.stopping] = Down]
<1>1. /\ engine \in [Engines -> Engine] /\ inbox \in [Engines -> Seq(Request)] /\ proc \in Engines \cup {None}
      /\ CallsKnown /\ WindowKnown /\ events \in 0..MaxEvents
  BY DEF Frame, WindowTypes, PipeTypes, DiskTypes
<1>2. win.gui = "stop" /\ win.stopping \in Engines /\ win.then \in {"cancel", "close"} /\ UNCHANGED <<disk, events>>
      /\ inbox' = [inbox EXCEPT ![win.stopping] = <<>>] /\ Stopped(win.then, es, proc)
  BY <1>1 DEF StopEnds, WindowKnown
<1>3. win.open /\ call["gui"].at = "none"
  BY <1>1, <1>2 DEF WindowKnown, Shut, CallsKnown, Threads
<1>4. es \in [Engines -> Engine] /\ es[win.stopping] = Down /\ \A e \in Engines \ {win.stopping} : es[e] = engine[e]
  BY <1>1, <1>2, Quiet
<1>5. /\ inbox' \in [Engines -> Seq(Request)] /\ inbox'[win.stopping] = <<>>
      /\ \A e \in Engines \ {win.stopping} : inbox'[e] = inbox[e]
  BY <1>1, <1>2, EmptySeq
<1> HIDE DEF es
<1>6. CASE win.then = "close"
  <2>1. Exit(es)
    BY <1>2, <1>6 DEF Stopped
  <2> QED
    BY <1>1, <1>2, <1>4, <1>5, <2>1, ExitFrame
<1>7. CASE win.then # "close"
  <2>1. /\ win' = [win EXCEPT !.gui = "loop", !.then = "refresh", !.page = "choose", !.cancelled = TRUE, !.stopping = None]
        /\ proc' = proc /\ engine' = es /\ UNCHANGED <<call, worker, outbox>>
    BY <1>2, <1>7 DEF Stopped
  <2>2. ASSUME NEW e \in Engines PROVE EngineKnown(e)'
    BY <1>4, <1>5, <2>1, Loses
  <2>3. proc # None => (engine'[proc].up => engine'[proc].heard)
    BY <1>1, <1>4, <2>1, Quiet DEF CallsKnown
  <2> QED
    BY <1>1, <1>2, <1>3, <1>4, <1>5, <2>1, <2>2, <2>3, BackFrame
<1> QED
  BY <1>6, <1>7

\* The process of the window ends.
LEMMA DiesFrame ==
  ASSUME Counted, Frame, AppDies
  PROVE  Frame'
<1>1. Exit(engine) /\ UNCHANGED <<disk, inbox>> /\ events' \in 0..MaxEvents
  BY Bounds DEF AppDies, Happens, Frame, DiskTypes
<1> QED
  BY <1>1, ExitFrame DEF Frame, PipeTypes

\* The frame holds at first and after every step.
LEMMA FrameStep ==
  ASSUME Counted, Frame, [Next]_vars
  PROVE  Frame'
<1>1. CASE UNCHANGED vars
  BY <1>1 DEF vars, disk, pipes, Frame, DiskTypes, PipeTypes, WindowTypes, EngineKnown, Working, CallsKnown, WindowKnown
<1>2. CASE Next
  BY <1>2, EngineFrame, ClientFrame, WorkerFrame, GuiFrame, UserFrame, StopFrame, EndFrame, DiesFrame DEF Next, WindowStep
<1> QED
  BY <1>1, <1>2

\* Before the window opens, everything is of its type and nobody has called.
LEMMA FrameFirst ==
  ASSUME Counted, Init
  PROVE  Frame
<1>1. Down \in Engine /\ NoCall \in Call /\ NoWorker \in Worker /\ Shut \in Window /\ NoCall.at = "none" /\ Fits(NoCall.req)
      /\ NoCall.req = NoRequest /\ NoWorker.posted = <<>> /\ ~NoWorker.run
  BY Quiet, Blank
<1>2. DiskTypes
  BY Bounds DEF Init, DiskTypes, Target
<1>3. PipeTypes
  <2>1. <<>> \in Seq(Request) /\ <<>> \in Seq(Line)
    BY EmptySeq
  <2> QED
    BY <1>1, <2>1 DEF Init, PipeTypes
<1>4. WindowTypes
  BY <1>1 DEF Init, WindowTypes
<1>5. ASSUME NEW e \in Engines PROVE EngineKnown(e)
  BY Quiet, Blank DEF Init, EngineKnown, Working, AtWork
<1>6. CallsKnown
  BY <1>1 DEF Init, CallsKnown, Threads
<1>7. WindowKnown
  <2>1. Shut.gui = "loop" /\ ~Shut.open
    BY DEF Shut
  <2> QED
    BY <1>1, <2>1 DEF Init, WindowKnown, Threads
<1> QED
  BY <1>2, <1>3, <1>4, <1>5, <1>6, <1>7 DEF Frame

\* Requests, engines, pipes, calls and the window have their types in every
\* state: svc_app/engine_client.py and main.py, svc_engine/rpc/server.py.
THEOREM CoverTypes ==
  ASSUME Counted
  PROVE  Spec => []TypeOK
<1>1. Init => Frame
  BY FrameFirst
<1>2. Frame /\ [Next]_vars => Frame'
  BY FrameStep
<1>3. Frame => TypeOK
  <2> SUFFICES ASSUME Frame PROVE TypeOK
    OBVIOUS
  <2>1. worker.posted \in Seq({"succeeded", "failed", "finished"})
    <3>1. worker.posted \in {<<>>, <<"finished">>, <<"succeeded", "finished">>, <<"failed", "finished">>}
      BY DEF Frame, WindowTypes, Worker
    <3>2. \A a, b \in {"succeeded", "failed", "finished"} :
            /\ <<>> \in Seq({"succeeded", "failed", "finished"}) /\ <<a>> \in Seq({"succeeded", "failed", "finished"})
            /\ <<a, b>> \in Seq({"succeeded", "failed", "finished"})
      OBVIOUS
    <3> QED
      BY <3>1, <3>2
  <2>2. worker.run \in BOOLEAN /\ worker.shows \in {"none", "recommend", "result"} /\ worker.result \in Jobs \cup {None}
    BY DEF Frame, WindowTypes, Worker
  <2> QED
    BY <2>1, <2>2 DEF Frame, DiskTypes, PipeTypes, WindowTypes, Engine, Call, Window, TypeOK
<1> QED
  BY <1>1, <1>2, <1>3, PTL DEF Spec

-----------------------------------------------------------------------------
(* A cover is asked for once *)

\* A place is the thread's, an engine's or a position in a pipe.
LEMMA PlaceIs ==
  ASSUME NEW p \in Places
  PROVE  \/ p = <<None, 0>> /\ p \in Places
         \/ \E d \in Engines : p = <<d, 0>> /\ p # <<None, 0>>
         \/ \E d \in Engines, i \in Nat \ {0} : p = <<d, i>> /\ p # <<None, 0>>
  BY Bounds DEF Places

\* What waits is a cover.
LEMMA WaitsForJob ==
  ASSUME Frame, NEW p \in Places, Waits(p)
  PROVE  JobAt(p) \in Jobs
<1>1. CASE p = <<None, 0>>
  BY <1>1 DEF Waits, JobAt, Frame, CallsKnown, Fits, Threads
<1>2. ASSUME NEW d \in Engines, p = <<d, 0>>, p # <<None, 0>> PROVE JobAt(p) \in Jobs
  <2>1. engine[d].at = "cover" /\ EngineKnown(d)
    BY <1>2 DEF Waits, Frame
  <2> QED
    BY <1>2, <2>1 DEF EngineKnown, Fits, JobAt, Job
<1>3. ASSUME NEW d \in Engines, NEW i \in Nat \ {0}, p = <<d, i>>, p # <<None, 0>> PROVE JobAt(p) \in Jobs
  <2>1. i \in DOMAIN inbox[d] /\ inbox[d][i].op = "cover" /\ EngineKnown(d)
    BY <1>3 DEF Waits, Frame
  <2> QED
    BY <1>3, <2>1 DEF EngineKnown, Fits, JobAt
<1> QED
  BY <1>1, <1>2, <1>3, PlaceIs

\* While a worker runs, a job that nobody has is nobody's.
KeepsFree == worker.run => \A j \in Jobs : Free(j) => Free(j)'

\* Covers that wait have waited before, perhaps at another place.
LEMMA Moved ==
  ASSUME AskedOnce, NotBegun, NEW from \in [Places -> Places],
         \A p, q \in Places : from[p] = from[q] /\ Waits(p)' /\ Waits(q)' => p = q,
         \A p \in Places : Waits(p)' => Waits(from[p]) /\ JobAt(p)' = JobAt(from[p]),
         \A p \in Places : Waits(p)' => (request'[JobAt(p)'] => request[JobAt(p)']),
         \A p \in Places, e \in Engines : Waits(p)' /\ Working(e)' /\ Job(e)' = JobAt(p)' =>
           (Working(e) /\ Job(e) = Job(e)') \/ request[JobAt(p)'],
         \A j \in Jobs : Free(j) => ~request'[j] /\ \A e \in Engines : Working(e)' => Job(e)' # j
  PROVE  AskedOnce' /\ NotBegun' /\ KeepsFree
<1>1. ASSUME NEW p \in Places, NEW q \in Places, Waits(p)', Waits(q)', JobAt(p)' = JobAt(q)' PROVE p = q
  <2>1. from[p] \in Places /\ from[q] \in Places
    OBVIOUS
  <2>2. from[p] = from[q]
    BY <1>1, <2>1 DEF AskedOnce
  <2> QED
    BY <1>1, <2>2
<1>2. ASSUME NEW p \in Places, Waits(p)' PROVE ~request[JobAt(p)'] /\ \A e \in Engines : Working(e) => Job(e) # JobAt(p)'
  <2>1. from[p] \in Places /\ Waits(from[p]) /\ JobAt(p)' = JobAt(from[p])
    BY <1>2
  <2> QED
    BY <2>1 DEF NotBegun
<1>3. AskedOnce'
  BY <1>1 DEF AskedOnce
<1>4. NotBegun'
  BY <1>2 DEF NotBegun
<1>5. ASSUME NEW j \in Jobs, Free(j) PROVE Free(j)'
  <2>1. ASSUME NEW p \in Places, Waits(p)' PROVE JobAt(p)' # j
    <3>1. from[p] \in Places /\ Waits(from[p]) /\ JobAt(p)' = JobAt(from[p])
      BY <2>1
    <3> QED
      BY <1>5, <3>1 DEF Free
  <2>2. ~request'[j] /\ \A e \in Engines : Working(e)' => Job(e)' # j
    BY <1>5
  <2> QED
    BY <2>1, <2>2 DEF Free
<1> QED
  BY <1>3, <1>4, <1>5 DEF KeepsFree

\* Nothing is asked for, and nothing begun that was asked for.
LEMMA Quietly ==
  ASSUME Frame, AskedOnce, NotBegun,
         \A d \in Engines : inbox'[d] = inbox[d] \/ inbox'[d] = <<>>,
         \A d \in Engines : engine'[d].at = "cover" => engine[d].at = "cover" /\ engine'[d].req = engine[d].req,
         call'["worker"].at \in {"start", "write"} /\ call'["worker"].req.op = "cover" =>
           call["worker"].at \in {"start", "write"} /\ call'["worker"].req = call["worker"].req,
         \A j \in Jobs : request'[j] => request[j],
         \A d \in Engines : Working(d)' => (Working(d) /\ Job(d)' = Job(d)) \/ request[Job(d)']
  PROVE  AskedOnce' /\ NotBegun' /\ KeepsFree
<1> DEFINE from == [p \in Places |-> p]
<1>1. ASSUME NEW p \in Places, Waits(p)' PROVE Waits(p) /\ JobAt(p)' = JobAt(p)
  <2>1. CASE p = <<None, 0>>
    BY <1>1, <2>1 DEF Waits, JobAt
  <2>2. ASSUME NEW d \in Engines, p = <<d, 0>>, p # <<None, 0>> PROVE Waits(p) /\ JobAt(p)' = JobAt(p)
    BY <1>1, <2>2 DEF Waits, JobAt, Job
  <2>3. ASSUME NEW d \in Engines, NEW i \in Nat \ {0}, p = <<d, i>>, p # <<None, 0>> PROVE Waits(p) /\ JobAt(p)' = JobAt(p)
    <3>1. i \in DOMAIN inbox'[d]
      BY <1>1, <2>3 DEF Waits
    <3>2. inbox'[d] = inbox[d]
      BY <3>1
    <3> QED
      BY <1>1, <2>3, <3>2 DEF Waits, JobAt
  <2> QED
    BY <2>1, <2>2, <2>3, PlaceIs
<1>2. from \in [Places -> Places] /\ \A p \in Places : from[p] = p
  OBVIOUS
<1> HIDE DEF from
<1>3. \A p \in Places : Waits(p)' => Waits(from[p]) /\ JobAt(p)' = JobAt(from[p])
  BY <1>1, <1>2
<1>4. ASSUME NEW p \in Places, Waits(p)' PROVE request'[JobAt(p)'] => request[JobAt(p)']
  BY <1>1, <1>4, WaitsForJob
<1>5. ASSUME NEW p \in Places, NEW e \in Engines, Waits(p)', Working(e)', Job(e)' = JobAt(p)'
      PROVE  (Working(e) /\ Job(e) = Job(e)') \/ request[JobAt(p)']
  BY <1>5
<1>6. \A p, q \in Places : from[p] = from[q] /\ Waits(p)' /\ Waits(q)' => p = q
  BY <1>2
<1>7. \A j \in Jobs : Free(j) => ~request'[j] /\ \A e \in Engines : Working(e)' => Job(e)' # j
  BY DEF Free
<1> QED
  BY <1>2, <1>3, <1>4, <1>5, <1>6, <1>7, Moved

\* The same of a step of one engine.
LEMMA EngineQuiet ==
  ASSUME Frame, AskedOnce, NotBegun, NEW e \in Engines,
         \A d \in Engines \ {e} : engine'[d] = engine[d] /\ inbox'[d] = inbox[d],
         inbox'[e] = inbox[e] \/ inbox'[e] = <<>>, engine'[e].at # "cover", UNCHANGED call,
         \A j \in Jobs : request'[j] => request[j],
         Working(e)' => (Working(e) /\ Job(e)' = Job(e)) \/ request[Job(e)']
  PROVE  AskedOnce' /\ NotBegun' /\ KeepsFree
<1>1. ASSUME NEW d \in Engines
      PROVE  /\ inbox'[d] = inbox[d] \/ inbox'[d] = <<>>
             /\ engine'[d].at = "cover" => engine[d].at = "cover" /\ engine'[d].req = engine[d].req
             /\ Working(d)' => (Working(d) /\ Job(d)' = Job(d)) \/ request[Job(d)']
  <2>1. CASE d = e
    BY <2>1
  <2>2. CASE d # e
    <3>1. engine'[d] = engine[d] /\ inbox'[d] = inbox[d]
      BY <2>2
    <3> QED
      BY <3>1 DEF Working, Job
  <2> QED
    BY <2>1, <2>2
<1> QED
  BY <1>1, Quietly

\* What an answer changes.
LEMMA AnswerIs ==
  ASSUME Counted, Frame, NEW e \in Engines, NEW r, NEW kind, NEW j, NEW rest, AnswerTo(e, r, kind, j, rest)
  PROVE  /\ engine'[e].at = "idle" /\ ~Working(e)' /\ (inbox'[e] = rest \/ inbox'[e] = <<>>)
         /\ \A d \in Engines \ {e} : engine'[d] = engine[d] /\ inbox'[d] = inbox[d]
         /\ engine[e].heard => inbox'[e] = rest
<1>1. engine \in [Engines -> Engine] /\ inbox \in [Engines -> Seq(Request)] /\ engine[e] \in Engine
  BY DEF Frame, PipeTypes
<1>2. CASE engine[e].heard
  <2>1. engine' = [engine EXCEPT ![e].at = "idle", ![e].req = NoRequest] /\ inbox' = [inbox EXCEPT ![e] = rest]
    BY <1>2 DEF AnswerTo
  <2>2. engine'[e].at = "idle"
    BY <1>1, <2>1 DEF Engine
  <2>3. inbox'[e] = rest /\ \A d \in Engines \ {e} : engine'[d] = engine[d] /\ inbox'[d] = inbox[d]
    BY <1>1, <2>1
  <2> QED
    BY <2>2, <2>3 DEF Working, AtWork
<1>3. CASE ~engine[e].heard
  <2>1. engine' = [engine EXCEPT ![e] = Down] /\ inbox' = [inbox EXCEPT ![e] = <<>>]
    BY <1>3 DEF AnswerTo, Gone
  <2>2. engine'[e].at = "idle"
    BY <1>1, <2>1, Quiet
  <2>3. inbox'[e] = <<>> /\ \A d \in Engines \ {e} : engine'[d] = engine[d] /\ inbox'[d] = inbox[d]
    BY <1>1, <2>1
  <2> QED
    BY <1>3, <2>2, <2>3 DEF Working, AtWork
<1> QED
  BY <1>2, <1>3

\* What going on changes.
LEMMA GoesTo ==
  ASSUME Frame, NEW e \in Engines, NEW p, Goto(e, p)
  PROVE  /\ engine'[e].at = p /\ engine'[e].req = engine[e].req /\ Job(e)' = Job(e) /\ engine'[e].heard = engine[e].heard
         /\ engine'[e].up = engine[e].up
         /\ \A d \in Engines \ {e} : engine'[d] = engine[d]
<1>1. engine \in [Engines -> Engine] /\ engine[e] \in Engine
  BY DEF Frame, PipeTypes
<1>2. engine'[e] = [engine[e] EXCEPT !.at = p] /\ \A d \in Engines \ {e} : engine'[d] = engine[d]
  BY <1>1 DEF Goto
<1> QED
  BY <1>1, <1>2 DEF Engine, Job

\* An engine takes the next line: what waited behind it moves up.
LEMMA ServeOnce ==
  ASSUME Counted, Frame, AskedOnce, NotBegun, NEW e \in Engines, Serve(e)
  PROVE  AskedOnce' /\ NotBegun' /\ KeepsFree
<1> DEFINE r == Head(inbox[e])  rest == Tail(inbox[e])
<1>1. inbox \in [Engines -> Seq(Request)] /\ inbox[e] \in Seq(Request) /\ inbox[e] # <<>>
      /\ engine \in [Engines -> Engine] /\ engine[e] \in Engine /\ engine[e].at = "idle"
  BY DEF Frame, PipeTypes, Serve, At
<1>2. /\ DOMAIN inbox[e] = 1..Len(inbox[e]) /\ Len(inbox[e]) \in Nat /\ r = inbox[e][1] /\ Len(inbox[e]) # 0
      /\ DOMAIN rest = 1..(Len(inbox[e]) - 1) /\ \A i \in 1..(Len(inbox[e]) - 1) : rest[i] = inbox[e][i + 1]
  <2>1. rest \in Seq(Request) /\ Len(rest) = Len(inbox[e]) - 1 /\ r = inbox[e][1] /\ \A i \in 1..Len(rest) : rest[i] = inbox[e][i + 1]
    BY <1>1, HeadTailProperties
  <2>2. DOMAIN rest = 1..Len(rest) /\ DOMAIN inbox[e] = 1..Len(inbox[e]) /\ Len(inbox[e]) \in Nat /\ Len(inbox[e]) # 0
    BY <1>1, <2>1, LenProperties, EmptySeq
  <2> HIDE DEF r, rest
  <2> QED
    BY <2>1, <2>2
<1>3. UNCHANGED <<call, request>>
  BY DEF Serve, EngineRest, DiskRest, disk
<1>4. /\ ~Working(e)' /\ (inbox'[e] = rest \/ inbox'[e] = <<>>)
      /\ \A d \in Engines \ {e} : engine'[d] = engine[d] /\ inbox'[d] = inbox[d]
      /\ engine'[e].at = "cover" => r.op = "cover" /\ engine'[e].req = r
  <2>1. CASE \E j : AnswerTo(e, r, "ok", j, rest)
    <3> HIDE DEF r, rest
    <3> QED
      BY <2>1, AnswerIs
  <2>2. CASE r.op \in {"stage", "cover", "resume"} /\ engine' = [engine EXCEPT ![e].at = r.op, ![e].req = r]
             /\ inbox' = [inbox EXCEPT ![e] = rest]
    <3> HIDE DEF r, rest
    <3>1. engine'[e].at = r.op /\ engine'[e].req = r /\ inbox'[e] = rest
          /\ \A d \in Engines \ {e} : engine'[d] = engine[d] /\ inbox'[d] = inbox[d]
      BY <1>1, <2>2 DEF Engine
    <3> QED
      BY <2>2, <3>1 DEF Working, AtWork
  <2> QED
    BY <2>1, <2>2 DEF Serve
<1> HIDE DEF r, rest
<1> DEFINE from == [p \in Places |-> IF p[1] = e THEN <<e, p[2] + 1>> ELSE p]
<1>5. from \in [Places -> Places]
  BY DEF Places
<1>6. \A i \in Nat : <<e, i>> \in Places /\ <<e, i>> # <<None, 0>> /\ from[<<e, i>>] = <<e, i + 1>>
  BY Bounds DEF Places
<1>7. \A p \in Places : p[1] # e => from[p] = p
  OBVIOUS
<1>8. ASSUME NEW p \in Places, NEW q \in Places, from[p] = from[q] PROVE p = q
  <2>1. (p = <<None, 0>> \/ p = <<p[1], p[2]>>) /\ (q = <<None, 0>> \/ q = <<q[1], q[2]>>)
    BY DEF Places
  <2>2. p[2] \in Nat /\ q[2] \in Nat /\ p = <<p[1], p[2]>> /\ q = <<q[1], q[2]>>
    BY DEF Places
  <2>3. (p[1] = e => from[p] = <<e, p[2] + 1>>) /\ (q[1] = e => from[q] = <<e, q[2] + 1>>)
    OBVIOUS
  <2> HIDE DEF from
  <2> QED
    BY <1>7, <1>8, <2>2, <2>3
<1> HIDE DEF from
<1>9. ASSUME NEW p \in Places, Waits(p)' PROVE Waits(from[p]) /\ JobAt(p)' = JobAt(from[p])
  <2>1. CASE p = <<None, 0>>
    <3>1. from[p] = p
      BY <1>7, <2>1, Bounds
    <3> QED
      BY <1>3, <1>9, <2>1, <3>1 DEF Waits, JobAt
  <2>2. ASSUME NEW d \in Engines, NEW i \in Nat, p = <<d, i>>, p # <<None, 0>>, d # e
        PROVE  Waits(from[p]) /\ JobAt(p)' = JobAt(from[p])
    <3>1. from[p] = p /\ engine'[d] = engine[d] /\ inbox'[d] = inbox[d]
      BY <1>4, <1>7, <2>2
    <3> QED
      BY <1>9, <2>2, <3>1 DEF Waits, JobAt, Job
  <2>3. CASE p = <<e, 0>>
    <3>1. from[p] = <<e, 1>> /\ p # <<None, 0>> /\ <<e, 1>> # <<None, 0>>
      BY <1>6, <2>3
    <3>2. engine'[e].at = "cover"
      BY <1>9, <2>3, <3>1 DEF Waits
    <3>3. inbox[e][1] = r /\ 1 \in DOMAIN inbox[e] /\ r.op = "cover" /\ engine'[e].req = r
      BY <1>2, <1>4, <3>2
    <3> QED
      BY <2>3, <3>1, <3>3 DEF Waits, JobAt, Job
  <2>4. ASSUME NEW i \in Nat \ {0}, p = <<e, i>> PROVE Waits(from[p]) /\ JobAt(p)' = JobAt(from[p])
    <3>1. from[p] = <<e, i + 1>> /\ p # <<None, 0>> /\ <<e, i + 1>> # <<None, 0>>
      BY <1>6, <2>4
    <3>2. i \in DOMAIN inbox'[e] /\ inbox'[e][i].op = "cover"
      BY <1>9, <2>4, <3>1 DEF Waits
    <3>3. inbox'[e] = rest
      BY <1>4, <3>2
    <3>4. i + 1 \in DOMAIN inbox[e] /\ rest[i] = inbox[e][i + 1]
      BY <1>2, <2>4, <3>2, <3>3
    <3> QED
      BY <2>4, <3>1, <3>2, <3>3, <3>4 DEF Waits, JobAt
  <2> QED
    BY <2>1, <2>2, <2>3, <2>4, PlaceIs
<1>10. ASSUME NEW p \in Places, NEW d \in Engines, Waits(p)', Working(d)', Job(d)' = JobAt(p)'
       PROVE  (Working(d) /\ Job(d) = Job(d)') \/ request[JobAt(p)']
  <2>1. engine'[d] = engine[d]
    BY <1>4, <1>10
  <2> QED
    BY <1>10, <2>1 DEF Working, Job
<1>11. \A j \in Jobs : Free(j) => ~request'[j] /\ \A d \in Engines : Working(d)' => Job(d)' # j
  <2>1. \A d \in Engines : Working(d)' => Working(d) /\ Job(d)' = Job(d)
    BY <1>4 DEF Working, Job
  <2> QED
    BY <1>3, <2>1 DEF Free
<1> QED
  BY <1>3, <1>5, <1>8, <1>9, <1>10, <1>11, Moved

\* The request of a cover becomes durable, whether or not it is gone on with:
\* nobody else waits with it.
LEMMA CoverOnce ==
  ASSUME Counted, Frame, AskedOnce, NotBegun, NEW e \in Engines,
         CoverRequest(e) \/ (CoverRefused(e) /\ Requested(e))
  PROVE  AskedOnce' /\ NotBegun' /\ KeepsFree
<1> DEFINE from == [p \in Places |-> p]
<1>1. /\ engine[e].at = "cover" /\ UNCHANGED call
      /\ request \in [Jobs -> BOOLEAN] /\ request' = [request EXCEPT ![Job(e)] = TRUE]
  BY DEF CoverRequest, CoverRefused, Requested, At, EngineRest, Frame, DiskTypes
<1>2. /\ engine'[e].at # "cover" /\ (Working(e)' => Job(e)' = Job(e))
      /\ \A d \in Engines \ {e} : engine'[d] = engine[d] /\ inbox'[d] = inbox[d]
      /\ inbox'[e] = inbox[e] \/ inbox'[e] = <<>>
  <2>1. CASE CoverRequest(e)
    <3>1. Goto(e, "execute") /\ UNCHANGED inbox
      BY <2>1 DEF CoverRequest
    <3> QED
      BY <3>1, GoesTo
  <2>2. CASE CoverRefused(e)
    <3>1. AnswerTo(e, engine[e].req, "error", None, inbox[e])
      BY <2>2 DEF CoverRefused, Answer
    <3> QED
      BY <3>1, AnswerIs
  <2> QED
    BY <2>1, <2>2
<1>3. <<e, 0>> \in Places /\ <<e, 0>> # <<None, 0>> /\ Waits(<<e, 0>>) /\ JobAt(<<e, 0>>) = Job(e) /\ ~Waits(<<e, 0>>)'
  BY <1>1, <1>2, Bounds DEF Places, Waits, JobAt
<1>4. ASSUME NEW p \in Places, Waits(p)' PROVE Waits(p) /\ JobAt(p)' = JobAt(p)
  <2>1. CASE p = <<None, 0>>
    BY <1>1, <1>4, <2>1 DEF Waits, JobAt
  <2>2. ASSUME NEW d \in Engines, p = <<d, 0>>, p # <<None, 0>> PROVE Waits(p) /\ JobAt(p)' = JobAt(p)
    <3>1. d # e
      BY <1>3, <1>4, <2>2
    <3> QED
      BY <1>2, <1>4, <2>2, <3>1 DEF Waits, JobAt, Job
  <2>3. ASSUME NEW d \in Engines, NEW i \in Nat \ {0}, p = <<d, i>>, p # <<None, 0>> PROVE Waits(p) /\ JobAt(p)' = JobAt(p)
    <3>1. i \in DOMAIN inbox'[d] /\ inbox'[d][i].op = "cover"
      BY <1>4, <2>3 DEF Waits
    <3>2. inbox'[d] = inbox[d]
      BY <1>2, <3>1
    <3> QED
      BY <1>4, <2>3, <3>1, <3>2 DEF Waits, JobAt
  <2> QED
    BY <2>1, <2>2, <2>3, PlaceIs
<1>5. ASSUME NEW p \in Places, Waits(p)' PROVE JobAt(p)' # Job(e) /\ JobAt(p)' \in Jobs
  <2>1. p # <<e, 0>>
    BY <1>3, <1>5
  <2>2. JobAt(p) # Job(e)
    BY <1>3, <1>4, <1>5, <2>1 DEF AskedOnce
  <2> QED
    BY <1>4, <1>5, <2>2, WaitsForJob
<1>6. from \in [Places -> Places] /\ \A p \in Places : from[p] = p
  OBVIOUS
<1> HIDE DEF from
<1>7. \A p \in Places : Waits(p)' => Waits(from[p]) /\ JobAt(p)' = JobAt(from[p])
  BY <1>4, <1>6
<1>8. \A p \in Places : Waits(p)' => (request'[JobAt(p)'] => request[JobAt(p)'])
  BY <1>1, <1>5
<1>9. ASSUME NEW p \in Places, NEW d \in Engines, Waits(p)', Working(d)', Job(d)' = JobAt(p)'
      PROVE  (Working(d) /\ Job(d) = Job(d)') \/ request[JobAt(p)']
  <2>1. d # e
    BY <1>2, <1>5, <1>9
  <2> QED
    BY <1>2, <1>9, <2>1 DEF Working, Job
<1>10. \A p, q \in Places : from[p] = from[q] /\ Waits(p)' /\ Waits(q)' => p = q
  BY <1>6
<1>11. ASSUME NEW j \in Jobs, Free(j) PROVE ~request'[j] /\ \A d \in Engines : Working(d)' => Job(d)' # j
  <2>1. j # Job(e)
    BY <1>3, <1>11 DEF Free
  <2>2. \A d \in Engines \ {e} : Working(d)' => Working(d) /\ Job(d)' = Job(d)
    BY <1>2 DEF Working, Job
  <2> QED
    BY <1>1, <1>2, <1>11, <2>1, <2>2 DEF Free
<1> QED
  BY <1>6, <1>7, <1>8, <1>9, <1>10, <1>11, Moved

\* The other steps of an engine begin no cover.
LEMMA EngineOnce ==
  ASSUME Counted, Frame, AskedOnce, NotBegun, NEW e \in Engines,
         EngineStep(e) \/ CoverRefused(e) \/ RunFails(e) \/ EngineDies(e) \/ Noise(e)
  PROVE  AskedOnce' /\ NotBegun' /\ KeepsFree
<1>1. engine \in [Engines -> Engine] /\ inbox \in [Engines -> Seq(Request)] /\ request \in [Jobs -> BOOLEAN]
  BY DEF Frame, PipeTypes, DiskTypes
<1>2. ASSUME UNCHANGED call, \A j \in Jobs : request'[j] => request[j], \E kind, j : Answer(e, kind, j)
      PROVE  AskedOnce' /\ NotBegun' /\ KeepsFree
  <2>1. PICK kind, j : AnswerTo(e, engine[e].req, kind, j, inbox[e])
    BY <1>2 DEF Answer
  <2>2. /\ engine'[e].at = "idle" /\ ~Working(e)' /\ (inbox'[e] = inbox[e] \/ inbox'[e] = <<>>)
        /\ \A d \in Engines \ {e} : engine'[d] = engine[d] /\ inbox'[d] = inbox[d]
    BY <2>1, AnswerIs
  <2> QED
    BY <1>2, <2>2, EngineQuiet
<1>3. ASSUME UNCHANGED <<call, inbox>>, \A j \in Jobs : request'[j] => request[j], Working(e) \/ request[Job(e)],
             NEW p \in AtWork, Goto(e, p)
      PROVE  AskedOnce' /\ NotBegun' /\ KeepsFree
  <2>1. engine'[e].at = p /\ Job(e)' = Job(e) /\ \A d \in Engines \ {e} : engine'[d] = engine[d]
    BY <1>3, GoesTo
  <2>2. p # "cover"
    BY DEF AtWork
  <2> QED
    BY <1>3, <2>1, <2>2, EngineQuiet
<1>4. CASE Serve(e)
  BY <1>4, ServeOnce
<1>5. CASE CoverRequest(e)
  BY <1>5, CoverOnce
<1>6. CASE Stage(e) \/ CoverRefused(e)
  <2>1. CASE CoverRefused(e) /\ Requested(e)
    BY <2>1, CoverOnce
  <2>2. CASE Stage(e) \/ (CoverRefused(e) /\ DiskRest)
    BY <1>2, <2>2 DEF Stage, CoverRefused, EngineRest, DiskRest, disk
  <2> QED
    BY <1>6, <2>1, <2>2 DEF CoverRefused
<1>7. CASE LoadRequest(e)
  <2>1. UNCHANGED <<call, request>>
    BY <1>7 DEF LoadRequest, EngineRest
  <2>2. CASE request[Job(e)]
    <3>1. Goto(e, "execute") /\ UNCHANGED inbox
      BY <1>7, <2>2 DEF LoadRequest
    <3> QED
      BY <1>3, <2>1, <2>2, <3>1 DEF AtWork
  <2>3. CASE ~request[Job(e)]
    BY <1>2, <1>7, <2>1, <2>3 DEF LoadRequest
  <2> QED
    BY <2>2, <2>3
<1>8. CASE Execute(e) \/ Run(e) \/ Work(e) \/ Copying(e) \/ Publish(e) \/ Complete(e) \/ RunFails(e)
  <2>1. Working(e) /\ UNCHANGED <<call, inbox, request>> /\ \E p \in AtWork : Goto(e, p)
    BY <1>8 DEF Execute, Run, Work, Copying, Publish, RunFails, Complete, At, Working, AtWork, EngineRest, DiskRest, disk, Reports, Fails
  <2> QED
    BY <1>3, <2>1
<1>9. CASE Finish(e) \/ Failing(e)
  <2>1. UNCHANGED call /\ (\A j \in Jobs : request'[j] => request[j]) /\ \E kind, j : Answer(e, kind, j)
    BY <1>1, <1>9 DEF Finish, Failing, EngineRest
  <2> QED
    BY <1>2, <2>1
<1>10. CASE Exits(e) \/ EngineDies(e)
  <2>1. /\ engine' = [engine EXCEPT ![e] = Down] /\ UNCHANGED <<call, request>>
        /\ inbox' = inbox \/ inbox' = [inbox EXCEPT ![e] = <<>>]
    BY <1>10 DEF Exits, EngineDies, Gone, EngineRest, DiskRest, disk
  <2>2. engine'[e] = Down /\ (inbox'[e] = inbox[e] \/ inbox'[e] = <<>>)
        /\ \A d \in Engines \ {e} : engine'[d] = engine[d] /\ inbox'[d] = inbox[d]
    BY <1>1, <2>1
  <2>3. engine'[e].at = "idle" /\ ~Working(e)'
    BY <2>2, Quiet DEF Working, AtWork
  <2> QED
    BY <2>1, <2>2, <2>3, EngineQuiet
<1>11. CASE Noise(e)
  <2>1. UNCHANGED <<engine, inbox, call, request>>
    BY <1>11 DEF Noise, EngineRest, DiskRest, disk
  <2> QED
    BY <2>1, Quietly DEF Working, Job
<1> QED
  BY <1>4, <1>5, <1>6, <1>7, <1>8, <1>9, <1>10, <1>11 DEF EngineStep

\* Sending the request of a cover takes it from the thread to the pipe.
LEMMA ClientOnce ==
  ASSUME Counted, Frame, AskedOnce, NotBegun, NEW t \in Threads, ClientStep(t)
  PROVE  AskedOnce' /\ NotBegun' /\ KeepsFree
<1>1. /\ engine \in [Engines -> Engine] /\ inbox \in [Engines -> Seq(Request)] /\ call \in [Threads -> Call]
      /\ CallsKnown /\ UNCHANGED request
  BY DEF Frame, PipeTypes, WindowTypes, ClientStep, CallStart, CallWrite, WindowRest, disk
<1>2. CASE CallStart(t)
  <2>1. \E q \in Engines \cup {None} : call' = [call EXCEPT ![t].at = "write", ![t].proc = q]
    <3>1. CASE proc # None /\ engine[proc].up
      BY <1>2, <3>1 DEF CallStart, Frame, WindowTypes
    <3>2. CASE ~(proc # None /\ engine[proc].up)
      BY <1>2, <3>2 DEF CallStart
    <3> QED
      BY <3>1, <3>2
  <2>2. \A u \in Threads : call'[u].req = call[u].req /\ (u # t => call'[u] = call[u])
    BY <1>1, <2>1 DEF Call
  <2>3. call[t].at = "start" /\ "worker" \in Threads /\ UNCHANGED inbox
    BY <1>2 DEF CallStart, pipes, Threads
  <2>4. ASSUME NEW d \in Engines
        PROVE  /\ engine'[d].at = "cover" => engine[d].at = "cover" /\ engine'[d].req = engine[d].req
               /\ Working(d)' => Working(d) /\ Job(d)' = Job(d)
    <3>1. CASE engine'[d] = engine[d]
      BY <3>1 DEF Working, Job
    <3>2. CASE engine'[d] # engine[d]
      <4>1. engine'[d] = [Down EXCEPT !.up = TRUE, !.open = TRUE, !.heard = TRUE]
        BY <1>1, <1>2, <3>2 DEF CallStart, pipes
      <4>2. engine'[d].at = "idle"
        BY <4>1, Quiet DEF Down
      <4> QED
        BY <4>2 DEF Working, AtWork
    <3> QED
      BY <3>1, <3>2
  <2>5. call'["worker"].at \in {"start", "write"} /\ call'["worker"].req.op = "cover" =>
          call["worker"].at \in {"start", "write"} /\ call'["worker"].req = call["worker"].req
    BY <2>2, <2>3
  <2> QED
    BY <1>1, <2>3, <2>4, <2>5, Quietly
<1>3. CASE CallWrite(t)
  <2> DEFINE e == call[t].proc  n == Len(inbox[e]) + 1  x == call[t].req
             from == [p \in Places |-> IF t = "worker" /\ p = <<e, n>> THEN <<None, 0>> ELSE p]
  <2>1. /\ call[t].at = "write" /\ inbox' = [inbox EXCEPT ![e] = Append(@, x)] /\ UNCHANGED engine
        /\ call' = [call EXCEPT ![t].at = "read"]
    BY <1>3 DEF CallWrite
  <2>2. e \in Engines /\ x \in Request
    BY <1>1, <2>1 DEF CallsKnown, Call
  <2>3. call'[t].at = "read" /\ \A u \in Threads : u # t => call'[u] = call[u]
    BY <1>1, <2>1 DEF Call
  <2>4. inbox[e] \in Seq(Request)
    BY <1>1, <2>2
  <2>5. /\ Len(inbox[e]) \in Nat /\ DOMAIN inbox[e] = 1..Len(inbox[e])
    BY <2>4, LenProperties
  <2>6. /\ n \in Nat \ {0} /\ DOMAIN inbox'[e] = 1..n /\ inbox'[e][n] = x
        /\ \A i \in 1..n : i # n => i \in DOMAIN inbox[e] /\ inbox'[e][i] = inbox[e][i]
    <3>1. inbox'[e] = Append(inbox[e], x)
      BY <1>1, <2>1, <2>2
    <3>2. inbox'[e] \in Seq(Request) /\ Len(inbox'[e]) = n /\ inbox'[e][n] = x
          /\ \A i \in 1..Len(inbox[e]) : inbox'[e][i] = inbox[e][i]
      BY <2>2, <2>4, <3>1, AppendProperties
    <3>3. DOMAIN inbox'[e] = 1..n
      BY <3>2, LenProperties
    <3> HIDE DEF e, x
    <3> QED
      BY <2>5, <3>2, <3>3
  <2>7. \A d \in Engines : d # e => inbox'[d] = inbox[d]
    BY <1>1, <2>1
  <2>8. t = "gui" => x.op # "cover"
    BY <1>1, <2>1 DEF CallsKnown
  <2> HIDE DEF e, n, x
  <2>9. <<e, n>> \in Places /\ <<e, n>> # <<None, 0>> /\ <<None, 0>> \in Places /\ ~Waits(<<e, n>>)
    <3>1. <<e, n>> \in Places /\ <<e, n>> # <<None, 0>> /\ <<None, 0>> \in Places
      BY <2>2, <2>6, Bounds DEF Places
    <3>2. n \notin DOMAIN inbox[e]
      BY <2>5, <2>6 DEF n
    <3> QED
      BY <2>6, <3>1, <3>2 DEF Waits
  <2>10. from \in [Places -> Places]
    BY <2>9
  <2>11. \A p \in Places : from[p] = IF t = "worker" /\ p = <<e, n>> THEN <<None, 0>> ELSE p
    OBVIOUS
  <2> HIDE DEF from
  <2>12. t = "worker" => ~Waits(<<None, 0>>)'
    BY <2>3 DEF Waits
  <2>13. ASSUME NEW p \in Places, Waits(p)', p # <<e, n>> PROVE Waits(p) /\ JobAt(p)' = JobAt(p)
    <3>1. CASE p = <<None, 0>>
      <4>1. t # "worker"
        BY <2>12, <2>13, <3>1
      <4>2. call'["worker"] = call["worker"]
        BY <2>3, <4>1 DEF Threads
      <4> QED
        BY <2>13, <3>1, <4>2 DEF Waits, JobAt
    <3>2. ASSUME NEW d \in Engines, p = <<d, 0>>, p # <<None, 0>> PROVE Waits(p) /\ JobAt(p)' = JobAt(p)
      BY <2>1, <2>13, <3>2 DEF Waits, JobAt, Job
    <3>3. ASSUME NEW d \in Engines, NEW i \in Nat \ {0}, p = <<d, i>>, p # <<None, 0>> PROVE Waits(p) /\ JobAt(p)' = JobAt(p)
      <4>1. i \in DOMAIN inbox'[d] /\ inbox'[d][i].op = "cover"
        BY <2>13, <3>3 DEF Waits
      <4>2. i \in DOMAIN inbox[d] /\ inbox'[d][i] = inbox[d][i]
        <5>1. CASE d = e
          <6>1. i # n
            BY <2>13, <3>3, <5>1
          <6> QED
            BY <2>6, <4>1, <5>1, <6>1
        <5>2. CASE d # e
          BY <2>7, <4>1, <5>2
        <5> QED
          BY <5>1, <5>2
      <4> QED
        BY <3>3, <4>1, <4>2 DEF Waits, JobAt
    <3> QED
      BY <3>1, <3>2, <3>3, PlaceIs
  <2>14. ASSUME NEW p \in Places, Waits(p)', p = <<e, n>> PROVE t = "worker" /\ Waits(<<None, 0>>) /\ JobAt(p)' = JobAt(<<None, 0>>)
    <3>1. n # 0 /\ p # <<None, 0>>
      BY <2>6, <2>9, <2>14
    <3>2. inbox'[e][n].op = "cover"
      BY <2>14, <3>1 DEF Waits
    <3>3. x.op = "cover" /\ t = "worker"
      BY <2>6, <2>8, <3>2 DEF Threads
    <3>4. Waits(<<None, 0>>) /\ JobAt(<<None, 0>>) = x.job
      BY <2>1, <3>3 DEF Waits, JobAt, x
    <3>5. JobAt(p)' = inbox'[e][n].job
      BY <2>14, <3>1 DEF JobAt
    <3> QED
      BY <2>6, <3>3, <3>4, <3>5
  <2>15. \A p \in Places : Waits(p)' => Waits(from[p]) /\ JobAt(p)' = JobAt(from[p])
    BY <2>11, <2>13, <2>14
  <2>16. ASSUME NEW p \in Places, NEW q \in Places, from[p] = from[q], Waits(p)', Waits(q)' PROVE p = q
    BY <2>9, <2>11, <2>12, <2>16
  <2>17. \A p \in Places, d \in Engines : Working(d)' => Working(d) /\ Job(d) = Job(d)'
    BY <2>1 DEF Working, Job
  <2>18. ASSUME NEW j \in Jobs, Free(j) PROVE ~request'[j] /\ \A d \in Engines : Working(d)' => Job(d)' # j
    <3>1. ~request[j] /\ \A d \in Engines : Working(d) => Job(d) # j
      BY <2>18 DEF Free
    <3>2. UNCHANGED <<engine, request>>
      BY <1>1, <2>1
    <3> QED
      BY <3>1, <3>2 DEF Working, Job
  <2> QED
    BY <1>1, <2>10, <2>15, <2>16, <2>17, <2>18, Moved
<1> QED
  BY <1>2, <1>3 DEF ClientStep

\* A worker that is started for a cover asks for one that nobody has.
LEMMA StartOnce ==
  ASSUME Counted, Frame, AskedOnce, NotBegun, NEW w, NEW c \in [Threads -> Call], c["worker"] = call["worker"],
         NEW op \in {"stage", "cover", "resume"}, NEW j \in Jobs \cup {None}, NEW out \in Target, NEW shows,
         op = "cover" /\ ~Busy => j \in New,
         Busy \/ (IF op = "stage" THEN j = None ELSE j \in Jobs),
         StartWorker(w, c, op, j, out, shows), UNCHANGED <<engine, inbox, request>>
  PROVE  AskedOnce' /\ NotBegun' /\ KeepsFree
<1>1. CASE Busy \/ op # "cover"
  <2>1. call'["worker"].at \in {"start", "write"} /\ call'["worker"].req.op = "cover" =>
          call["worker"].at \in {"start", "write"} /\ call'["worker"].req = call["worker"].req
    <3>1. CASE Busy
      BY <3>1 DEF StartWorker
    <3>2. CASE ~Busy
      <4>1. call'["worker"] = Calling(op, j, out) /\ op # "cover"
        BY <1>1, <3>2 DEF StartWorker, Threads
      <4> QED
        BY <4>1 DEF Calling
    <3> QED
      BY <3>1, <3>2
  <2> QED
    BY <2>1, Quietly DEF Working, Job
<1>2. CASE ~Busy /\ op = "cover"
  <2>1. call' = [c EXCEPT !["worker"] = Calling(op, j, out)] /\ j \in New /\ j \in Jobs
    BY <1>2 DEF StartWorker, New
  <2>2. call'["worker"].req.job = j
    BY <2>1 DEF Threads, Calling
  <2>3. /\ ~request[j] /\ \A e \in Engines : engine[e].req.job # j /\ \A i \in DOMAIN inbox[e] : inbox[e][i].job # j
    BY <2>1 DEF New
  <2>4. ASSUME NEW p \in Places, p # <<None, 0>>, Waits(p)' PROVE Waits(p) /\ JobAt(p)' = JobAt(p) /\ JobAt(p) # j
    <3>1. ASSUME NEW d \in Engines, p = <<d, 0>> PROVE Waits(p) /\ JobAt(p)' = JobAt(p) /\ JobAt(p) # j
      BY <2>3, <2>4, <3>1 DEF Waits, JobAt, Job
    <3>2. ASSUME NEW d \in Engines, NEW i \in Nat \ {0}, p = <<d, i>> PROVE Waits(p) /\ JobAt(p)' = JobAt(p) /\ JobAt(p) # j
      BY <2>3, <2>4, <3>2 DEF Waits, JobAt
    <3> QED
      BY <2>4, <3>1, <3>2, PlaceIs
  <2>5. JobAt(<<None, 0>>)' = j
    BY <2>2 DEF JobAt
  <2>6. \A e \in Engines : Working(e)' => Working(e) /\ Job(e)' = Job(e) /\ Job(e) # j
    BY <2>3 DEF Working, Job
  <2>7. ASSUME NEW p \in Places, NEW q \in Places, Waits(p)', Waits(q)', JobAt(p)' = JobAt(q)' PROVE p = q
    BY <2>4, <2>5, <2>7 DEF AskedOnce
  <2>8. ASSUME NEW p \in Places, Waits(p)' PROVE ~request'[JobAt(p)'] /\ \A e \in Engines : Working(e)' => Job(e)' # JobAt(p)'
    <3>1. CASE p = <<None, 0>>
      BY <2>3, <2>5, <2>6, <3>1
    <3>2. CASE p # <<None, 0>>
      BY <2>4, <2>6, <2>8, <3>2 DEF NotBegun
    <3> QED
      BY <3>1, <3>2
  <2>9. KeepsFree
    BY <1>2 DEF KeepsFree, Busy
  <2> QED
    BY <2>7, <2>8, <2>9 DEF AskedOnce, NotBegun
<1> QED
  BY <1>1, <1>2

\* What the window does.
LEMMA WindowOnce ==
  ASSUME Counted, Frame, AskedOnce, NotBegun, WorkerReturns \/ GuiReturns \/ TakePosted \/ StopEnds \/ WindowStep
  PROVE  AskedOnce' /\ NotBegun' /\ KeepsFree
<1>1. /\ engine \in [Engines -> Engine] /\ inbox \in [Engines -> Seq(Request)] /\ call \in [Threads -> Call]
      /\ target \in [Jobs -> Target] /\ WindowKnown /\ proc \in Engines \cup {None} /\ engine \in [Engines -> Engine]
  BY DEF Frame, PipeTypes, WindowTypes, DiskTypes
<1>2. UNCHANGED request
  BY DEF WorkerReturns, GuiReturns, TakePosted, StopEnds, WindowStep, Visit, Settings, CheckUpdate, OpenProject, Wizard,
         Turns, Turn, Preview, Full, Cancel, Close, Open, AppDies, Asks, WindowRest, GuiRest, disk
<1>3. CASE UNCHANGED <<engine, inbox>> /\ (call'["worker"] = call["worker"] \/ call'["worker"] = NoCall)
  <2>1. call'["worker"].at \in {"start", "write"} => call'["worker"] = call["worker"]
    BY <1>3, Quiet
  <2> QED
    BY <1>2, <1>3, <2>1, Quietly DEF Working, Job
<1>4. CASE /\ \A d \in Engines : \/ engine'[d] = Down
                                 \/ engine'[d].at = engine[d].at /\ engine'[d].req = engine[d].req
           /\ \A d \in Engines : inbox'[d] = inbox[d] \/ inbox'[d] = <<>>
           /\ call'["worker"] = call["worker"] \/ call'["worker"] = NoCall
  <2>1. call'["worker"].at \in {"start", "write"} => call'["worker"] = call["worker"]
    BY <1>4, Quiet
  <2>2. ASSUME NEW d \in Engines
        PROVE  /\ engine'[d].at = "cover" => engine[d].at = "cover" /\ engine'[d].req = engine[d].req
               /\ Working(d)' => Working(d) /\ Job(d)' = Job(d)
    BY <1>4, Quiet DEF Working, Job, AtWork
  <2> QED
    BY <1>2, <1>4, <2>1, <2>2, Quietly
<1>5. CASE WorkerReturns
  BY <1>1, <1>3, <1>5 DEF WorkerReturns, Threads
<1>6. CASE TakePosted \/ Visit \/ Settings \/ CheckUpdate \/ OpenProject \/ Wizard \/ Turns \/ Preview \/ Open
  <2>1. UNCHANGED <<engine, inbox>>
    BY <1>6 DEF TakePosted, Visit, Settings, CheckUpdate, OpenProject, Wizard, Turns, Turn, Preview, Open, Asks, GuiRest, pipes
  <2>2. call'["worker"] = call["worker"]
    BY <1>1, <1>6 DEF TakePosted, Visit, Settings, CheckUpdate, OpenProject, Wizard, Turns, Turn, Preview, Open, Asks, Threads
  <2> QED
    BY <1>3, <2>1, <2>2
<1>7. CASE Full
  <2>1. PICK o \in Outputs, j \in IF Busy THEN {None} ELSE New :
          StartWorker([win EXCEPT !.page = "processing"], call, "cover", j, o, Shows(o))
    BY <1>7 DEF Full, Begin
  <2>2. UNCHANGED <<engine, inbox>> /\ o \in Target /\ j \in Jobs \cup {None} /\ (Busy \/ j \in New) /\ (Busy \/ j \in Jobs)
    BY <1>7, <2>1 DEF Full, GuiRest, pipes, Target, New
  <2> QED
    BY <1>1, <1>2, <2>1, <2>2, StartOnce
<1>8. CASE GuiReturns
  <2> DEFINE w == [win EXCEPT !.gui = "loop", !.then = "refresh"]
             c == [call EXCEPT !["gui"] = NoCall]
  <2>1. PICK ok \in BOOLEAN, j \in Jobs \cup {None} :
          \/ win.then = "preview" /\ Begin(w, c, Inside)
          \/ win.then = "stage" /\ ok /\ StartWorker(w, c, "stage", None, Inside, "none")
          \/ win.then = "offer" /\ j # None /\ StartWorker([w EXCEPT !.page = "processing"], c, "resume", j, Inside, Shows(target[j]))
          \/ win.then = "project" /\ ok /\ win' = [w EXCEPT !.screen = "wizard", !.page = "choose"] /\ call' = c /\ UNCHANGED worker
          \/ ~(win.then = "preview" \/ (win.then = "project" /\ ok)) /\ win' = w /\ call' = c /\ UNCHANGED worker
    BY <1>8 DEF GuiReturns
  <2>2. UNCHANGED <<engine, inbox>> /\ Inside \in Target
    BY <1>8 DEF GuiReturns, Target
  <2>3. c \in [Threads -> Call] /\ c["worker"] = call["worker"]
    BY <1>1, Quiet DEF Threads
  <2> HIDE DEF w, c
  <2>4. CASE Begin(w, c, Inside)
    <3>1. PICK i \in IF Busy THEN {None} ELSE New : StartWorker([w EXCEPT !.page = "processing"], c, "cover", i, Inside, Shows(Inside))
      BY <2>4 DEF Begin
    <3>2. i \in Jobs \cup {None} /\ (Busy \/ i \in New) /\ (Busy \/ i \in Jobs)
      BY <3>1 DEF New
    <3> QED
      BY <1>2, <2>2, <2>3, <3>1, <3>2, StartOnce
  <2>5. CASE StartWorker(w, c, "stage", None, Inside, "none")
    BY <1>2, <2>2, <2>3, <2>5, StartOnce
  <2>6. CASE j # None /\ StartWorker([w EXCEPT !.page = "processing"], c, "resume", j, Inside, Shows(target[j]))
    BY <1>2, <2>2, <2>3, <2>6, StartOnce
  <2>7. CASE call' = c
    BY <1>3, <2>2, <2>3, <2>7
  <2> QED
    BY <2>1, <2>4, <2>5, <2>6, <2>7
<1>9. ASSUME NEW es \in [Engines -> Engine], NEW then, NEW p, Stopped(then, es, p) \/ Exit(es),
             \A d \in Engines : es[d] = engine[d] \/ es[d] = Down, \A d \in Engines : inbox'[d] = inbox[d] \/ inbox'[d] = <<>>
      PROVE  AskedOnce' /\ NotBegun' /\ KeepsFree
  <2>1. CASE Exit(es)
    <3>1. /\ engine' = [e \in Engines |-> IF es[e].up THEN [es[e] EXCEPT !.open = FALSE, !.heard = FALSE] ELSE Down]
          /\ call'["worker"] = NoCall
      BY <2>1 DEF Exit, Threads
    <3>2. ASSUME NEW d \in Engines PROVE engine'[d] = Down \/ (engine'[d].at = engine[d].at /\ engine'[d].req = engine[d].req)
      <4>1. es[d] \in Engine /\ engine'[d] = IF es[d].up THEN [es[d] EXCEPT !.open = FALSE, !.heard = FALSE] ELSE Down
        BY <3>1
      <4>2. es[d].up => es[d] = engine[d]
        BY <1>9, Quiet
      <4>3. [es[d] EXCEPT !.open = FALSE, !.heard = FALSE].at = es[d].at /\ [es[d] EXCEPT !.open = FALSE, !.heard = FALSE].req = es[d].req
        BY <4>1 DEF Engine
      <4> QED
        BY <4>1, <4>2, <4>3
    <3> QED
      BY <1>4, <1>9, <3>1, <3>2
  <2>2. CASE ~Exit(es)
    <3>1. engine' = es /\ UNCHANGED call
      BY <1>9, <2>2 DEF Stopped
    <3>2. \A d \in Engines : engine'[d] = Down \/ (engine'[d].at = engine[d].at /\ engine'[d].req = engine[d].req)
      BY <1>9, <3>1
    <3> QED
      BY <1>4, <1>9, <3>1, <3>2
  <2> QED
    BY <2>1, <2>2
<1>10. CASE Cancel \/ Close
  <2>1. PICK then \in {"cancel", "close"} : Stop(then)
    BY <1>10 DEF Cancel, Close
  <2>2. UNCHANGED inbox
    BY <1>10 DEF Cancel, Close
  <2>3. CASE proc = None \/ ~engine[proc].up
    BY <1>1, <1>9, <2>1, <2>2, <2>3 DEF Stop
  <2>4. CASE proc # None /\ engine[proc].up
    <3>1. engine' = [engine EXCEPT ![proc].open = FALSE] /\ UNCHANGED call /\ proc \in Engines
      BY <1>1, <2>1, <2>4 DEF Stop
    <3>2. \A d \in Engines : engine'[d].at = engine[d].at /\ engine'[d].req = engine[d].req
      BY <1>1, <3>1 DEF Engine
    <3> QED
      BY <1>4, <2>2, <3>1, <3>2
  <2> QED
    BY <2>3, <2>4
<1>11. CASE StopEnds
  <2>1. Stopped(win.then, [engine EXCEPT ![win.stopping] = Down], proc) /\ win.stopping \in Engines
        /\ inbox' = [inbox EXCEPT ![win.stopping] = <<>>]
    BY <1>1, <1>11 DEF StopEnds, WindowKnown
  <2>2. [engine EXCEPT ![win.stopping] = Down] \in [Engines -> Engine]
        /\ \A d \in Engines : [engine EXCEPT ![win.stopping] = Down][d] \in {engine[d], Down}
    BY <1>1, <2>1, Quiet
  <2>3. \A d \in Engines : inbox'[d] = inbox[d] \/ inbox'[d] = <<>>
    BY <1>1, <2>1
  <2> QED
    BY <1>9, <2>1, <2>2, <2>3
<1>12. CASE AppDies
  BY <1>1, <1>9, <1>12 DEF AppDies
<1> QED
  BY <1>5, <1>6, <1>7, <1>8, <1>10, <1>11, <1>12 DEF WindowStep

\* Nothing that happens asks for a place twice, or begins one that is taken.
LEMMA OnceStep ==
  ASSUME Counted, Frame, AskedOnce, NotBegun, [Next]_vars
  PROVE  AskedOnce' /\ NotBegun' /\ KeepsFree
<1>1. CASE UNCHANGED vars
  <2>1. UNCHANGED <<engine, inbox, call, request>>
    BY <1>1 DEF vars, disk, pipes
  <2> QED
    BY <2>1, Quietly DEF Working, Job
<1>2. CASE Next
  BY <1>2, EngineOnce, ClientOnce, WindowOnce DEF Next
<1> QED
  BY <1>1, <1>2

-----------------------------------------------------------------------------
(* What is on disk of a job *)

\* Nothing is written, and nobody takes up a job.
LEMMA DiskStays ==
  ASSUME JobsKnown, UNCHANGED <<request, snap, delivered, target, file, shared>>,
         \A d \in Engines : Working(d)' => engine'[d].at = engine[d].at /\ Job(d)' = Job(d)
  PROVE  JobsKnown'
<1>1. OneEngine'
  BY DEF JobsKnown, OneEngine, Working
<1>2. ASSUME NEW e \in Engines PROVE WorkKnown(e)'
  BY DEF JobsKnown, WorkKnown, Working, Copied
<1>3. ASSUME NEW j \in Jobs PROVE DiskKnown(j)'
  BY DEF JobsKnown, DiskKnown, Recoverable, Copied
<1> QED
  BY <1>1, <1>2, <1>3 DEF JobsKnown

\* An engine writes of its own job only.
LEMMA JobAlone ==
  ASSUME JobsKnown, NEW e \in Engines, NEW j \in Jobs, Working(e), Job(e) = j, UNCHANGED <<target, shared>>,
         \A k \in Jobs \ {j} : /\ request'[k] = request[k] /\ snap'[k] = snap[k] /\ delivered'[k] = delivered[k]
                               /\ Copied(k) => Copied(k)',
         \A d \in Engines \ {e} : engine'[d] = engine[d],
         Working(e)' => Job(e)' = j, WorkKnown(e)', DiskKnown(j)',
         \A d \in Engines : Working(d) => Job(d) \in Jobs
  PROVE  JobsKnown'
<1>1. OneEngine'
  BY DEF JobsKnown, OneEngine, Working, Job
<1>2. ASSUME NEW d \in Engines PROVE WorkKnown(d)'
  <2>1. CASE d = e
    BY <2>1
  <2>2. CASE d # e /\ Working(d) /\ Job(d) \notin shared
    <3>1. engine'[d] = engine[d] /\ Job(d) # j /\ WorkKnown(d) /\ Job(d) \in Jobs
      BY <2>2 DEF JobsKnown, OneEngine, Job
    <3>2. PICK k \in Jobs \ {j} : k = Job(d)
      BY <3>1
    <3>3. request'[k] = request[k] /\ snap'[k] = snap[k] /\ delivered'[k] = delivered[k] /\ (Copied(k) => Copied(k)')
      OBVIOUS
    <3>4. Job(d)' = k
      BY <3>1, <3>2 DEF Job
    <3> QED
      BY <2>2, <3>1, <3>2, <3>3, <3>4 DEF WorkKnown, Copied, Working
  <2>3. CASE d # e /\ ~(Working(d) /\ Job(d) \notin shared)
    <3>1. engine'[d] = engine[d]
      BY <2>3
    <3> QED
      BY <2>3, <3>1 DEF WorkKnown, Working, Job
  <2> QED
    BY <2>1, <2>2, <2>3
<1>3. ASSUME NEW k \in Jobs PROVE DiskKnown(k)'
  <2>1. CASE k = j
    BY <2>1
  <2>2. CASE k # j
    <3>1. k \in Jobs \ {j}
      BY <2>2
    <3>2. /\ request'[k] = request[k] /\ snap'[k] = snap[k] /\ delivered'[k] = delivered[k] /\ Copied(k) => Copied(k)'
      BY <3>1
    <3>3. DiskKnown(k)
      BY DEF JobsKnown
    <3> QED
      BY <3>2, <3>3 DEF DiskKnown, Recoverable
  <2> QED
    BY <2>1, <2>2
<1> QED
  BY <1>1, <1>2, <1>3 DEF JobsKnown

\* The file of a job is written, and another job's is overwritten with one that is not its own.
LEMMA WrittenIs ==
  ASSUME Frame, NEW e \in Engines, NEW j \in Jobs, Job(e) = j, NEW whole \in BOOLEAN, Written(e, whole), UNCHANGED target
  PROVE  /\ \A k \in Jobs \ {j} : Copied(k) => Copied(k)'
         /\ whole => Copied(j)'
<1>1. file \in [Outputs -> [by : Jobs \cup {None}, whole : BOOLEAN]] /\ None \notin Jobs
  BY Bounds DEF Frame, DiskTypes
<1>2. CASE target[j] \in Outputs
  <2>1. file' = [file EXCEPT ![target[j]] = [by |-> j, whole |-> whole]]
    BY <1>2 DEF Written
  <2>2. file'[target[j]].by = j /\ file'[target[j]].whole = whole
        /\ \A o \in Outputs : o # target[j] => file'[o] = file[o]
    BY <1>1, <1>2, <2>1
  <2> QED
    BY <1>1, <2>2 DEF Copied
<1>3. CASE target[j] \notin Outputs
  BY <1>3 DEF Written, Copied
<1> QED
  BY <1>2, <1>3

\* The steps of an engine on a job it has.
LEMMA WorkStep ==
  ASSUME Counted, Frame, JobsKnown, NEW e \in Engines, Working(e), EngineStep(e) \/ RunFails(e)
  PROVE  JobsKnown'
<1>1. /\ engine \in [Engines -> Engine] /\ request \in [Jobs -> BOOLEAN] /\ delivered \in [Jobs -> BOOLEAN]
      /\ snap \in [Jobs -> {"none", "running", "failed", "completed"}]
  BY DEF Frame, PipeTypes, DiskTypes
<1>2. \A d \in Engines : Working(d) => Job(d) \in Jobs
  BY DEF Frame, EngineKnown, Fits, Job
<1>3. PICK j \in Jobs : Job(e) = j
  BY <1>2
<1>4. WorkKnown(e) /\ DiskKnown(j)
  BY DEF JobsKnown
<1>5. engine[e].at \in AtWork /\ engine[e].at # "idle" /\ engine[e].at \notin {"stage", "cover", "resume"}
  BY DEF Working, AtWork
<1>6. CASE Execute(e)
  <2>1. UNCHANGED <<request, snap, delivered, target, file, shared>> /\ (Goto(e, "run") \/ Goto(e, "failing"))
        /\ engine[e].at = "execute"
    BY <1>6 DEF Execute, DiskRest, disk, At
  <2>2. engine'[e].at \in {"run", "failing"} /\ Job(e)' = j /\ \A d \in Engines \ {e} : engine'[d] = engine[d]
    BY <1>3, <2>1, GoesTo
  <2>3. WorkKnown(e)'
    BY <1>3, <1>4, <2>1, <2>2 DEF WorkKnown, Working
  <2>4. DiskKnown(j)' /\ \A k \in Jobs : Copied(k) => Copied(k)'
    BY <1>4, <2>1 DEF DiskKnown, Recoverable, Copied
  <2> QED
    BY <1>2, <1>3, <2>1, <2>2, <2>3, <2>4, JobAlone
<1>7. CASE Run(e)
  <2>1. engine[e].at = "run" /\ UNCHANGED <<request, delivered, target, file, shared>> /\ Goto(e, "work")
        /\ snap' = [snap EXCEPT ![j] = "running"]
    BY <1>3, <1>7 DEF Run, At
  <2>2. engine'[e].at = "work" /\ Job(e)' = j /\ \A d \in Engines \ {e} : engine'[d] = engine[d]
    BY <1>3, <2>1, GoesTo
  <2>3. j \notin shared => request[j]
    BY <1>3, <1>4, <2>1 DEF WorkKnown
  <2>4. WorkKnown(e)'
    BY <2>1, <2>2, <2>3 DEF WorkKnown, Working
  <2>5. snap'[j] = "running" /\ \A k \in Jobs \ {j} : snap'[k] = snap[k]
    BY <1>1, <2>1
  <2>6. DiskKnown(j)' /\ \A k \in Jobs : Copied(k) => Copied(k)'
    BY <1>4, <2>1, <2>3, <2>5 DEF DiskKnown, Recoverable, Copied
  <2> QED
    BY <1>2, <1>3, <2>1, <2>2, <2>4, <2>5, <2>6, JobAlone
<1>8. ASSUME engine[e].at # "failing", Fails(e), UNCHANGED <<request, target, shared>>,
             \A k \in Jobs \ {j} : delivered'[k] = delivered[k] /\ (Copied(k) => Copied(k)'),
             j \notin shared => (delivered'[j] => Copied(j)')
      PROVE  JobsKnown'
  <2>1. engine'[e].at = "failing" /\ Job(e)' = j /\ \A d \in Engines \ {e} : engine'[d] = engine[d]
    BY <1>3, <1>8, GoesTo DEF Fails
  <2>2. snap'[j] = "failed" /\ \A k \in Jobs \ {j} : snap'[k] = snap[k]
    BY <1>1, <1>3, <1>8 DEF Fails
  <2>3. j \notin shared => request[j]
    BY <1>3, <1>4, <1>8 DEF WorkKnown
  <2>4. WorkKnown(e)'
    BY <2>1 DEF WorkKnown
  <2>5. DiskKnown(j)'
    BY <1>8, <2>2, <2>3 DEF DiskKnown, Recoverable
  <2> QED
    BY <1>2, <1>3, <1>8, <2>1, <2>2, <2>4, <2>5, JobAlone
<1>9. CASE Work(e)
  <2>1. /\ engine[e].at = "work" /\ UNCHANGED <<request, delivered, target, shared>>
        /\ Reports(e, IF delivered[j] THEN "complete" ELSE "copying")
        /\ IF engine[e].heard /\ ~delivered[j] THEN Written(e, FALSE) ELSE UNCHANGED file
    BY <1>3, <1>9 DEF Work, At
  <2>2. ASSUME NEW k \in Jobs \ {j} PROVE Copied(k) => Copied(k)'
    <3>1. CASE UNCHANGED file
      BY <2>1, <3>1 DEF Copied
    <3>2. CASE Written(e, FALSE)
      BY <1>3, <2>1, <3>2, WrittenIs
    <3> QED
      BY <2>1, <3>1, <3>2
  <2>3. j \notin shared => (delivered'[j] => Copied(j)')
    <3>1. CASE delivered[j]
      BY <1>4, <2>1, <3>1 DEF DiskKnown, Copied
    <3>2. CASE ~delivered[j]
      BY <2>1, <3>2
    <3> QED
      BY <3>1, <3>2
  <2>4. CASE engine[e].heard
    <3>1. UNCHANGED snap /\ Goto(e, IF delivered[j] THEN "complete" ELSE "copying")
      BY <2>1, <2>4 DEF Reports
    <3>2. engine'[e].at = (IF delivered[j] THEN "complete" ELSE "copying") /\ Job(e)' = j
          /\ \A d \in Engines \ {e} : engine'[d] = engine[d]
      BY <1>3, <3>1, GoesTo
    <3>3. WorkKnown(e)'
      BY <1>3, <1>4, <2>1, <3>1, <3>2 DEF WorkKnown, Working
    <3>4. DiskKnown(j)'
      BY <1>4, <2>1, <2>3, <3>1 DEF DiskKnown, Recoverable
    <3> QED
      BY <1>2, <1>3, <2>1, <2>2, <3>1, <3>2, <3>3, <3>4, JobAlone
  <2>5. CASE ~engine[e].heard
    <3>1. Fails(e)
      BY <2>1, <2>5 DEF Reports
    <3> QED
      BY <1>8, <2>1, <2>2, <2>3, <3>1
  <2> QED
    BY <2>4, <2>5
<1>10. CASE Copying(e)
  <2>1. /\ engine[e].at = "copying" /\ UNCHANGED <<request, delivered, target, shared>>
        /\ Reports(e, "publish") /\ Written(e, TRUE)
    BY <1>10 DEF Copying, At
  <2>2. Copied(j)' /\ \A k \in Jobs \ {j} : Copied(k) => Copied(k)'
    BY <1>3, <2>1, WrittenIs
  <2>3. CASE engine[e].heard
    <3>1. UNCHANGED snap /\ Goto(e, "publish")
      BY <2>1, <2>3 DEF Reports
    <3>2. engine'[e].at = "publish" /\ Job(e)' = j /\ \A d \in Engines \ {e} : engine'[d] = engine[d]
      BY <1>3, <3>1, GoesTo
    <3>3. WorkKnown(e)'
      BY <1>3, <1>4, <2>1, <2>2, <3>1, <3>2 DEF WorkKnown, Working, Copied
    <3>4. DiskKnown(j)'
      BY <1>4, <2>1, <2>2, <3>1 DEF DiskKnown, Recoverable
    <3> QED
      BY <1>2, <1>3, <2>1, <2>2, <3>1, <3>2, <3>3, <3>4, JobAlone
  <2>4. CASE ~engine[e].heard
    <3>1. Fails(e)
      BY <2>1, <2>4 DEF Reports
    <3> QED
      BY <1>8, <2>1, <2>2, <3>1
  <2> QED
    BY <2>3, <2>4
<1>11. CASE Publish(e)
  <2>1. /\ engine[e].at = "publish" /\ UNCHANGED <<request, target, file, shared>> /\ Reports(e, "complete")
        /\ delivered' = [delivered EXCEPT ![j] = TRUE]
    BY <1>3, <1>11 DEF Publish, At
  <2>2. delivered'[j] /\ \A k \in Jobs \ {j} : delivered'[k] = delivered[k]
    BY <1>1, <2>1
  <2>3. \A k \in Jobs : Copied(k) => Copied(k)'
    BY <2>1 DEF Copied
  <2>4. j \notin shared => Copied(j)'
    <3>1. j \notin shared => Copied(j)
      BY <1>3, <1>4, <2>1 DEF WorkKnown
    <3> QED
      BY <2>3, <3>1
  <2>5. CASE engine[e].heard
    <3>1. UNCHANGED snap /\ Goto(e, "complete")
      BY <2>1, <2>5 DEF Reports
    <3>2. engine'[e].at = "complete" /\ Job(e)' = j /\ \A d \in Engines \ {e} : engine'[d] = engine[d]
      BY <1>3, <3>1, GoesTo
    <3>3. WorkKnown(e)'
      BY <1>3, <1>4, <2>1, <2>2, <3>1, <3>2 DEF WorkKnown, Working
    <3>4. DiskKnown(j)'
      BY <1>4, <2>1, <2>2, <2>4, <3>1 DEF DiskKnown, Recoverable
    <3> QED
      BY <1>2, <1>3, <2>1, <2>2, <2>3, <3>1, <3>2, <3>3, <3>4, JobAlone
  <2>6. CASE ~engine[e].heard
    <3>1. Fails(e)
      BY <2>1, <2>6 DEF Reports
    <3> QED
      BY <1>8, <2>1, <2>2, <2>3, <2>4, <3>1
  <2> QED
    BY <2>5, <2>6
<1>12. CASE RunFails(e)
  <2>1. engine[e].at # "failing" /\ Fails(e) /\ UNCHANGED <<request, delivered, target, file, shared>>
    BY <1>12 DEF RunFails
  <2>2. \A k \in Jobs : Copied(k) => Copied(k)'
    BY <2>1 DEF Copied
  <2>3. j \notin shared => (delivered[j] => Copied(j))
    BY <1>4 DEF DiskKnown
  <2> QED
    BY <1>8, <2>1, <2>2, <2>3
<1>13. CASE Complete(e)
  <2>1. engine[e].at = "complete" /\ Goto(e, "finish") /\ snap' = [snap EXCEPT ![j] = "completed"]
        /\ UNCHANGED <<request, delivered, target, file, shared>>
    BY <1>3, <1>13 DEF Complete, At
  <2>2. engine'[e].at = "finish" /\ Job(e)' = j /\ \A d \in Engines \ {e} : engine'[d] = engine[d]
    BY <1>3, <2>1, GoesTo
  <2>3. snap'[j] = "completed" /\ \A k \in Jobs \ {j} : snap'[k] = snap[k]
    BY <1>1, <2>1
  <2>4. j \notin shared => delivered[j] /\ request[j]
    BY <1>3, <1>4, <2>1 DEF WorkKnown
  <2>5. WorkKnown(e)'
    BY <2>1, <2>2, <2>3, <2>4 DEF WorkKnown, Working
  <2>6. DiskKnown(j)' /\ \A k \in Jobs : Copied(k) => Copied(k)'
    BY <1>4, <2>1, <2>3, <2>4 DEF DiskKnown, Recoverable, Copied
  <2> QED
    BY <1>2, <1>3, <2>1, <2>2, <2>3, <2>5, <2>6, JobAlone
<1>14. CASE Finish(e) \/ Failing(e)
  <2>1. /\ UNCHANGED <<snap, delivered, target, file, shared>> /\ \E kind, i : Answer(e, kind, i)
        /\ (request' = request
            \/ (request' = [request EXCEPT ![j] = FALSE] /\ (engine[e].at = "finish" \/ snap[j] = "none")))
    BY <1>3, <1>14 DEF Finish, Failing, At
  <2>2. ~Working(e)' /\ \A d \in Engines \ {e} : engine'[d] = engine[d]
    BY <2>1, AnswerIs DEF Answer
  <2>3. \A k \in Jobs \ {j} : request'[k] = request[k]
    BY <1>1, <2>1
  <2>4. j \notin shared => (engine[e].at = "finish" => snap[j] = "completed")
    BY <1>3, <1>4 DEF WorkKnown
  <2>5. j \notin shared => (Recoverable(j) => request'[j])
    BY <1>4, <2>1, <2>4 DEF DiskKnown, Recoverable
  <2>6. DiskKnown(j)' /\ \A k \in Jobs : Copied(k) => Copied(k)'
    BY <1>4, <2>1, <2>5 DEF DiskKnown, Recoverable, Copied
  <2>7. WorkKnown(e)'
    BY <2>2 DEF WorkKnown
  <2> QED
    BY <1>2, <1>3, <2>1, <2>2, <2>3, <2>6, <2>7, JobAlone
<1>15. ~Serve(e) /\ ~Stage(e) /\ ~CoverRequest(e) /\ ~LoadRequest(e) /\ ~Exits(e)
  BY <1>5 DEF Serve, Stage, CoverRequest, LoadRequest, Exits, At
<1> QED
  BY <1>6, <1>7, <1>9, <1>10, <1>11, <1>12, <1>13, <1>14, <1>15 DEF EngineStep

\* A cover is begun: nothing is on disk of it, and nobody works on it.
LEMMA CoverBegins ==
  ASSUME Counted, Frame, NotBegun, JobsKnown, NEW e \in Engines,
         CoverRequest(e) \/ (CoverRefused(e) /\ Requested(e))
  PROVE  JobsKnown'
<1>1. /\ engine[e].at = "cover" /\ UNCHANGED <<file, shared>>
      /\ request \in [Jobs -> BOOLEAN] /\ delivered \in [Jobs -> BOOLEAN] /\ target \in [Jobs -> Target]
      /\ snap \in [Jobs -> {"none", "running", "failed", "completed"}]
  BY DEF CoverRequest, CoverRefused, Requested, At, Frame, DiskTypes
<1>2. Job(e) \in Jobs
  BY <1>1 DEF Frame, EngineKnown, Fits, Job
<1>3. PICK j \in Jobs : Job(e) = j
  BY <1>2
<1>4. /\ request' = [request EXCEPT ![j] = TRUE] /\ target' = [target EXCEPT ![j] = engine[e].req.out]
      /\ snap' = [snap EXCEPT ![j] = "none"] /\ delivered' = [delivered EXCEPT ![j] = FALSE]
  BY <1>3 DEF CoverRequest, Requested
<1>5. /\ request'[j] /\ snap'[j] = "none" /\ ~delivered'[j]
      /\ \A k \in Jobs \ {j} : /\ request'[k] = request[k] /\ snap'[k] = snap[k] /\ delivered'[k] = delivered[k]
                               /\ target'[k] = target[k] /\ (Copied(k) => Copied(k)')
  BY <1>1, <1>4 DEF Copied
<1>6. /\ (engine'[e].at = "execute" /\ Job(e)' = j) \/ (engine'[e].at = "idle" /\ ~Working(e)')
      /\ \A d \in Engines \ {e} : engine'[d] = engine[d]
  <2>1. CASE CoverRequest(e)
    <3>1. Goto(e, "execute")
      BY <2>1 DEF CoverRequest
    <3> QED
      BY <1>3, <3>1, GoesTo
  <2>2. CASE CoverRefused(e)
    <3>1. AnswerTo(e, engine[e].req, "error", None, inbox[e])
      BY <2>2 DEF CoverRefused, Answer
    <3> QED
      BY <3>1, AnswerIs
  <2> QED
    BY <2>1, <2>2
<1>7. \A d \in Engines : Working(d) => Job(d) # j
  <2>1. <<e, 0>> \in Places /\ Waits(<<e, 0>>) /\ JobAt(<<e, 0>>) = j
    BY <1>1, <1>3, Bounds DEF Places, Waits, JobAt
  <2> QED
    BY <2>1 DEF NotBegun
<1>8. OneEngine'
  <2>1. ASSUME NEW d \in Engines \ {e} PROVE Working(d)' => Working(d) /\ Job(d)' = Job(d) /\ Job(d) # j
    BY <1>6, <1>7 DEF Working, Job
  <2>2. Working(e)' => Job(e)' = j
    BY <1>6
  <2> QED
    BY <1>1, <2>1, <2>2 DEF JobsKnown, OneEngine
<1>9. ASSUME NEW d \in Engines PROVE WorkKnown(d)'
  <2>1. CASE d = e
    BY <1>5, <1>6, <2>1 DEF WorkKnown
  <2>2. CASE d # e /\ Working(d)
    <3>1. PICK k \in Jobs \ {j} : k = Job(d)
      BY <1>7, <2>2 DEF Frame, EngineKnown, Fits, Job
    <3>2. engine'[d] = engine[d] /\ Job(d)' = k /\ WorkKnown(d)
      BY <1>6, <2>2, <3>1 DEF Job, JobsKnown
    <3> QED
      BY <1>1, <1>5, <2>2, <3>1, <3>2 DEF WorkKnown, Working, Copied
  <2>3. CASE d # e /\ ~Working(d)
    <3>1. engine'[d] = engine[d]
      BY <1>6, <2>3
    <3> QED
      BY <2>3, <3>1 DEF WorkKnown, Working
  <2> QED
    BY <2>1, <2>2, <2>3
<1>10. ASSUME NEW k \in Jobs PROVE DiskKnown(k)'
  <2>1. CASE k = j
    BY <1>5, <2>1 DEF DiskKnown, Recoverable
  <2>2. CASE k # j
    <3>1. DiskKnown(k) /\ k \in Jobs \ {j}
      BY <2>2 DEF JobsKnown
    <3>2. /\ request'[k] = request[k] /\ snap'[k] = snap[k] /\ delivered'[k] = delivered[k] /\ (Copied(k) => Copied(k)')
      BY <1>5, <3>1
    <3> QED
      BY <1>1, <3>1, <3>2 DEF DiskKnown, Recoverable
  <2> QED
    BY <2>1, <2>2
<1> QED
  BY <1>8, <1>9, <1>10 DEF JobsKnown

\* A cover is taken up again: with its request, and shared if another engine has it.
LEMMA CoverResumes ==
  ASSUME Counted, Frame, JobsKnown, NEW e \in Engines, LoadRequest(e), request[Job(e)]
  PROVE  JobsKnown'
<1>1. /\ engine[e].at = "resume" /\ Goto(e, "execute") /\ UNCHANGED <<request, snap, delivered, target, file>>
      /\ shared' = IF \E o \in Engines \ {e} : engine[o].up /\ engine[o].at # "idle" /\ Job(o) = Job(e)
                     THEN shared \cup {Job(e)} ELSE shared
  BY DEF LoadRequest, At
<1>2. Job(e) \in Jobs
  BY <1>1 DEF Frame, EngineKnown, Fits, Job
<1>3. PICK j \in Jobs : Job(e) = j
  BY <1>2
<1>4. engine'[e].at = "execute" /\ Job(e)' = j /\ \A d \in Engines \ {e} : engine'[d] = engine[d]
  BY <1>1, <1>3, GoesTo
<1>5. shared \subseteq shared'
  BY <1>1
<1>6. ASSUME NEW d \in Engines \ {e}, Working(d), Job(d) = j PROVE j \in shared'
  <2>1. engine[d].at # "idle"
    BY <1>6 DEF Working, AtWork
  <2>2. engine[d].up
    BY <2>1, Quiet DEF Frame, EngineKnown
  <2> QED
    BY <1>1, <1>3, <1>6, <2>1, <2>2
<1>7. OneEngine'
  <2>1. ASSUME NEW c \in Engines, NEW d \in Engines, c # d, Working(c)', Working(d)', Job(c)' = Job(d)' PROVE Job(d)' \in shared'
    <3>1. \A x \in Engines \ {e} : (Working(x)' <=> Working(x)) /\ Job(x)' = Job(x)
      BY <1>4 DEF Working, Job
    <3>2. CASE c = e
      BY <1>4, <1>6, <2>1, <3>1, <3>2
    <3>3. CASE d = e
      BY <1>4, <1>6, <2>1, <3>1, <3>3
    <3>4. CASE c # e /\ d # e
      BY <1>5, <2>1, <3>1, <3>4 DEF JobsKnown, OneEngine
    <3> QED
      BY <3>2, <3>3, <3>4
  <2> QED
    BY <2>1 DEF OneEngine
<1>8. ASSUME NEW d \in Engines PROVE WorkKnown(d)'
  <2>1. CASE d = e
    BY <1>1, <1>3, <1>4, <2>1 DEF WorkKnown
  <2>2. CASE d # e
    <3>1. engine'[d] = engine[d] /\ WorkKnown(d)
      BY <1>4, <2>2 DEF JobsKnown
    <3> QED
      BY <1>1, <1>5, <3>1 DEF WorkKnown, Working, Job, Copied
  <2> QED
    BY <2>1, <2>2
<1>9. ASSUME NEW k \in Jobs PROVE DiskKnown(k)'
  BY <1>1, <1>5 DEF JobsKnown, DiskKnown, Recoverable, Copied
<1> QED
  BY <1>7, <1>8, <1>9 DEF JobsKnown

\* Every step keeps what is known of the jobs.
LEMMA JobsStep ==
  ASSUME Counted, Frame, NotBegun, JobsKnown, [Next]_vars
  PROVE  JobsKnown'
<1>1. engine \in [Engines -> Engine] /\ inbox \in [Engines -> Seq(Request)] /\ WindowKnown /\ proc \in Engines \cup {None}
  BY DEF Frame, PipeTypes, WindowTypes
<1>2. CASE UNCHANGED vars
  <2>1. UNCHANGED <<engine, request, snap, delivered, target, file, shared>>
    BY <1>2 DEF vars, disk, pipes
  <2> QED
    BY <2>1, DiskStays DEF Working, Job
<1>3. ASSUME NEW e \in Engines, EngineStep(e) \/ CoverRefused(e) \/ RunFails(e) \/ EngineDies(e) \/ Noise(e)
      PROVE  JobsKnown'
  <2>1. CASE Working(e) /\ (EngineStep(e) \/ RunFails(e))
    BY <2>1, WorkStep
  <2>2. CASE CoverRequest(e)
    BY <2>2, CoverBegins
  <2>3. CASE LoadRequest(e) /\ request[Job(e)]
    BY <2>3, CoverResumes
  <2>4. ASSUME UNCHANGED <<request, snap, delivered, target, file, shared>>, ~Working(e)',
               \A d \in Engines \ {e} : engine'[d] = engine[d]
        PROVE  JobsKnown'
    <3>1. ASSUME NEW d \in Engines, Working(d)' PROVE engine'[d].at = engine[d].at /\ Job(d)' = Job(d)
      <4>1. engine'[d] = engine[d]
        BY <2>4, <3>1
      <4> QED
        BY <4>1 DEF Job
    <3> QED
      BY <2>4, <3>1, DiskStays
  <2>5. ASSUME UNCHANGED <<request, snap, delivered, target, file, shared>>, \E kind, j : Answer(e, kind, j) PROVE JobsKnown'
    <3>1. ~Working(e)' /\ \A d \in Engines \ {e} : engine'[d] = engine[d]
      BY <2>5, AnswerIs DEF Answer
    <3> QED
      BY <2>4, <2>5, <3>1
  <2>6. CASE Serve(e)
    <3>1. UNCHANGED <<request, snap, delivered, target, file, shared>>
      BY <2>6 DEF Serve, DiskRest, disk
    <3>2. ~Working(e)' /\ \A d \in Engines \ {e} : engine'[d] = engine[d]
      <4>1. CASE \E j : AnswerTo(e, Head(inbox[e]), "ok", j, Tail(inbox[e]))
        BY <4>1, AnswerIs
      <4>2. CASE \E op \in {"stage", "cover", "resume"} : \E r : engine' = [engine EXCEPT ![e].at = op, ![e].req = r]
        <5>1. PICK op \in {"stage", "cover", "resume"} : \E r : engine' = [engine EXCEPT ![e].at = op, ![e].req = r]
          BY <4>2
        <5>2. engine'[e].at = op /\ \A d \in Engines \ {e} : engine'[d] = engine[d]
          BY <1>1, <5>1 DEF Engine
        <5> QED
          BY <5>2 DEF Working, AtWork
      <4> QED
        BY <2>6, <4>1, <4>2 DEF Serve
    <3> QED
      BY <2>4, <3>1, <3>2
  <2>7. CASE Stage(e) \/ CoverRefused(e)
    <3>1. CASE CoverRefused(e) /\ Requested(e)
      BY <3>1, CoverBegins
    <3>2. CASE Stage(e) \/ (CoverRefused(e) /\ DiskRest)
      BY <2>5, <3>2 DEF Stage, CoverRefused, DiskRest, disk
    <3> QED
      BY <2>7, <3>1, <3>2 DEF CoverRefused
  <2>8. CASE LoadRequest(e) /\ ~request[Job(e)]
    BY <2>5, <2>8 DEF LoadRequest
  <2>9. CASE Exits(e) \/ EngineDies(e)
    <3>1. engine' = [engine EXCEPT ![e] = Down] /\ UNCHANGED <<request, snap, delivered, target, file, shared>>
      BY <2>9 DEF Exits, EngineDies, Gone, DiskRest, disk
    <3>2. engine'[e] = Down /\ \A d \in Engines \ {e} : engine'[d] = engine[d]
      BY <1>1, <3>1
    <3>3. ~Working(e)'
      BY <3>2, Quiet DEF Working, AtWork
    <3> QED
      BY <2>4, <3>1, <3>2, <3>3
  <2>10. CASE Noise(e)
    <3>1. UNCHANGED <<engine, request, snap, delivered, target, file, shared>>
      BY <2>10 DEF Noise, DiskRest, disk
    <3> QED
      BY <3>1, DiskStays DEF Working, Job
  <2>11. CASE ~Working(e) /\ (EngineStep(e) \/ RunFails(e))
    <3>1. ~(Execute(e) \/ Run(e) \/ Work(e) \/ Copying(e) \/ Publish(e) \/ Complete(e) \/ Finish(e) \/ Failing(e) \/ RunFails(e))
      BY <2>11 DEF Execute, Run, Work, Copying, Publish, Complete, Finish, Failing, RunFails, At, Working, AtWork
    <3> QED
      BY <2>2, <2>3, <2>6, <2>7, <2>8, <2>9, <2>11, <3>1 DEF EngineStep
  <2> QED
    BY <1>3, <2>1, <2>7, <2>9, <2>10, <2>11
<1>4. ASSUME UNCHANGED <<request, snap, delivered, target, file, shared>>,
             \A d \in Engines : engine'[d].at = "idle" \/ (engine'[d].at = engine[d].at /\ engine'[d].req = engine[d].req)
      PROVE  JobsKnown'
  BY <1>4, DiskStays DEF Working, AtWork, Job
<1>5. CASE \E t \in Threads : ClientStep(t)
  <2>1. UNCHANGED <<request, snap, delivered, target, file, shared>>
    BY <1>5 DEF ClientStep, CallStart, CallWrite, WindowRest, disk
  <2>2. ASSUME NEW d \in Engines PROVE engine'[d].at = "idle" \/ engine'[d] = engine[d]
    <3>1. engine'[d] = engine[d] \/ engine'[d] = [Down EXCEPT !.up = TRUE, !.open = TRUE, !.heard = TRUE]
      BY <1>1, <1>5 DEF ClientStep, CallStart, CallWrite, pipes
    <3> QED
      BY <3>1, Quiet DEF Down
  <2> QED
    BY <1>4, <2>1, <2>2
<1>6. CASE WorkerReturns \/ GuiReturns \/ TakePosted \/ Visit \/ Settings \/ CheckUpdate \/ OpenProject \/ Wizard
           \/ Turns \/ Preview \/ Full \/ Open
  <2>1. UNCHANGED <<engine, request, snap, delivered, target, file, shared>>
    BY <1>6 DEF WorkerReturns, GuiReturns, TakePosted, Visit, Settings, CheckUpdate, OpenProject, Wizard,
         Turns, Turn, Preview, Full, Open, Asks, WindowRest, GuiRest, pipes, disk
  <2> QED
    BY <1>4, <2>1
<1>7. ASSUME NEW es \in [Engines -> Engine], UNCHANGED disk, engine' = es \/ Exit(es), \A d \in Engines : es[d] = engine[d] \/ es[d] = Down
      PROVE  JobsKnown'
  <2>1. ASSUME NEW d \in Engines
        PROVE  engine'[d].at = "idle" \/ (engine'[d].at = engine[d].at /\ engine'[d].req = engine[d].req)
    <3>1. es[d] \in Engine /\ (es[d] = engine[d] \/ es[d] = Down)
      BY <1>7
    <3>2. CASE engine' = es
      BY <3>1, <3>2, Quiet
    <3>3. CASE Exit(es)
      <4>1. engine'[d] = IF es[d].up THEN [es[d] EXCEPT !.open = FALSE, !.heard = FALSE] ELSE Down
        BY <3>3 DEF Exit
      <4>2. [es[d] EXCEPT !.open = FALSE, !.heard = FALSE].at = es[d].at /\ [es[d] EXCEPT !.open = FALSE, !.heard = FALSE].req = es[d].req
        BY <3>1 DEF Engine
      <4> QED
        BY <3>1, <4>1, <4>2, Quiet
    <3> QED
      BY <1>7, <3>2, <3>3
  <2> QED
    BY <1>4, <1>7, <2>1 DEF disk
<1>8. CASE Cancel \/ Close
  <2>1. PICK then \in {"cancel", "close"} : Stop(then)
    BY <1>8 DEF Cancel, Close
  <2>2. UNCHANGED disk
    BY <1>8 DEF Cancel, Close
  <2>3. CASE proc = None \/ ~engine[proc].up
    <3>1. engine' = engine \/ Exit(engine)
      BY <2>1, <2>3 DEF Stop, Stopped
    <3> QED
      BY <1>1, <1>7, <2>2, <3>1
  <2>4. CASE proc # None /\ engine[proc].up
    <3>1. engine' = [engine EXCEPT ![proc].open = FALSE] /\ proc \in Engines
      BY <1>1, <2>1, <2>4 DEF Stop
    <3>2. \A d \in Engines : engine'[d].at = engine[d].at /\ engine'[d].req = engine[d].req
      BY <1>1, <3>1 DEF Engine
    <3> QED
      BY <1>4, <2>2, <3>2 DEF disk
  <2> QED
    BY <2>3, <2>4
<1>9. CASE StopEnds
  <2>1. Stopped(win.then, [engine EXCEPT ![win.stopping] = Down], proc) /\ win.stopping \in Engines /\ UNCHANGED disk
    BY <1>1, <1>9 DEF StopEnds, WindowKnown
  <2>2. PICK es : es = [engine EXCEPT ![win.stopping] = Down]
    OBVIOUS
  <2>3. es \in [Engines -> Engine] /\ \A d \in Engines : es[d] = engine[d] \/ es[d] = Down
    BY <1>1, <2>1, <2>2, Quiet
  <2>4. engine' = es \/ Exit(es)
    BY <2>1, <2>2 DEF Stopped
  <2> QED
    BY <1>7, <2>1, <2>3, <2>4
<1>10. CASE AppDies
  BY <1>1, <1>7, <1>10 DEF AppDies
<1> QED
  BY <1>2, <1>3, <1>5, <1>6, <1>8, <1>9, <1>10 DEF Next, WindowStep

\* What the first theorems need of the state.
LEMMA KnownStep ==
  ASSUME Counted, Known, [Next]_vars
  PROVE  Known'
  BY FrameStep, OnceStep, JobsStep DEF Known

\* The same at the start: no cover, no call, no engine.
LEMMA KnownFirst ==
  ASSUME Counted, Init
  PROVE  Known
<1>1. \A p \in Places : ~Waits(p)
  <2>1. Down.at = "idle" /\ NoCall.at = "none"
    BY Quiet
  <2>2. ASSUME NEW p \in Places PROVE ~Waits(p)
    BY <2>1, PlaceIs DEF Init, Waits, Threads
  <2> QED
    BY <2>2
<1>2. \A e \in Engines : ~Working(e)
  BY Quiet DEF Init, Working, AtWork
<1>3. \A j \in Jobs : DiskKnown(j)
  BY DEF Init, DiskKnown, Recoverable
<1> QED
  BY <1>1, <1>2, <1>3, FrameFirst DEF Known, AskedOnce, NotBegun, JobsKnown, OneEngine, WorkKnown

\* What is offered to be resumed has its request: run_cover makes it durable
\* first and drops it last (svc_engine/workflows/cover.py).
THEOREM CoversAreRecoverable ==
  ASSUME Counted
  PROVE  Spec => []RecoverableHasRequest
<1>1. Init => Known
  BY KnownFirst
<1>2. Known /\ [Next]_vars => Known'
  BY KnownStep
<1>3. Known => RecoverableHasRequest
  BY DEF Known, JobsKnown, DiskKnown, RecoverableHasRequest
<1> QED
  BY <1>1, <1>2, <1>3, PTL DEF Spec

\* A completed cover has been copied to the end: deliver is cached only when
\* the copy was made (svc_engine/workflows/cover.py).
THEOREM CompletedCoversAreWhole ==
  ASSUME Counted
  PROVE  Spec => []CompletedIsDelivered
<1>1. Init => Known
  BY KnownFirst
<1>2. Known /\ [Next]_vars => Known'
  BY KnownStep
<1>3. Known => CompletedIsDelivered
  BY DEF Known, JobsKnown, DiskKnown, Copied, CompletedIsDelivered
<1> QED
  BY <1>1, <1>2, <1>3, PTL DEF Spec

-----------------------------------------------------------------------------
(* Answers are those of the calls *)

\* What a job that nobody has is on disk stays.
LEMMA FreeStays ==
  ASSUME Counted, Frame, [Next]_vars
  PROVE  shared \subseteq shared' /\ \A j \in Jobs : Free(j) => snap'[j] = snap[j]
<1>1. snap \in [Jobs -> {"none", "running", "failed", "completed"}]
  BY DEF Frame, DiskTypes
<1>2. CASE UNCHANGED <<snap, shared>>
  BY <1>2
<1>3. ASSUME NEW e \in Engines, NEW s, snap' = [snap EXCEPT ![Job(e)] = s], UNCHANGED shared, Working(e) \/ engine[e].at = "cover"
      PROVE  shared \subseteq shared' /\ \A j \in Jobs : Free(j) => snap'[j] = snap[j]
  <2>1. ASSUME NEW j \in Jobs, Free(j) PROVE j # Job(e)
    <3>1. CASE Working(e)
      BY <2>1, <3>1 DEF Free
    <3>2. CASE engine[e].at = "cover"
      <4>1. <<e, 0>> \in Places /\ Waits(<<e, 0>>) /\ JobAt(<<e, 0>>) = Job(e)
        BY <3>2, Bounds DEF Places, Waits, JobAt
      <4> QED
        BY <2>1, <4>1 DEF Free
    <3> QED
      BY <1>3, <3>1, <3>2
  <2> QED
    BY <1>1, <1>3, <2>1
<1>4. ASSUME NEW e \in Engines, EngineStep(e) \/ CoverRefused(e) \/ RunFails(e) \/ EngineDies(e) \/ Noise(e)
      PROVE  shared \subseteq shared' /\ \A j \in Jobs : Free(j) => snap'[j] = snap[j]
  <2>1. CASE LoadRequest(e)
    BY <2>1 DEF LoadRequest
  <2>2. CASE CoverRequest(e) \/ (CoverRefused(e) /\ Requested(e))
    BY <1>3, <2>2 DEF CoverRequest, CoverRefused, Requested, At
  <2>3. CASE Run(e) \/ Work(e) \/ Copying(e) \/ Publish(e) \/ RunFails(e) \/ Complete(e)
    <3>1. Working(e) /\ UNCHANGED shared /\ (UNCHANGED snap \/ \E s : snap' = [snap EXCEPT ![Job(e)] = s])
      BY <2>3 DEF Run, Work, Copying, Publish, RunFails, Complete, At, Working, AtWork, Reports, Fails
    <3> QED
      BY <1>2, <1>3, <3>1
  <2>4. CASE Serve(e) \/ Stage(e) \/ (CoverRefused(e) /\ DiskRest) \/ Execute(e) \/ Finish(e) \/ Failing(e) \/ Exits(e) \/ EngineDies(e) \/ Noise(e)
    BY <1>2, <2>4 DEF Serve, Stage, CoverRefused, Execute, Finish, Failing, Exits, EngineDies, Noise, DiskRest, disk
  <2> QED
    BY <1>4, <2>1, <2>2, <2>3, <2>4 DEF EngineStep, CoverRefused
<1>5. CASE UNCHANGED vars \/ \E t \in Threads : ClientStep(t)
  BY <1>2, <1>5 DEF vars, disk, ClientStep, CallStart, CallWrite, WindowRest
<1>6. CASE WorkerReturns \/ GuiReturns \/ TakePosted \/ StopEnds \/ WindowStep
  <2>1. UNCHANGED disk
    BY <1>6 DEF WorkerReturns, GuiReturns, TakePosted, StopEnds, WindowStep, Visit, Settings, CheckUpdate, OpenProject, Wizard,
         Turns, Turn, Preview, Full, Cancel, Close, Open, AppDies, Asks, WindowRest, GuiRest
  <2> QED
    BY <1>2, <2>1 DEF disk
<1> QED
  BY <1>4, <1>5, <1>6 DEF Next

\* A job that is settled stays so while a worker runs.
KeepsSettled == worker.run => \A j : Settled(j) => Settled(j)'

\* Nothing puts a settled job back into anybody's hands.
LEMMA SettledStays ==
  ASSUME Counted, Known, [Next]_vars
  PROVE  KeepsSettled
<1>1. KeepsFree /\ shared \subseteq shared' /\ \A j \in Jobs : Free(j) => snap'[j] = snap[j]
  BY OnceStep, FreeStays DEF Known
<1>2. ASSUME NEW j, worker.run, Settled(j) PROVE Settled(j)'
  <2>1. CASE j \in shared
    BY <1>1, <1>2, <2>1 DEF Settled
  <2>2. CASE j \notin shared
    <3>1. j \in Jobs /\ snap[j] = "completed" /\ Free(j)
      BY <1>2, <2>2 DEF Settled
    <3>2. Free(j)' /\ snap'[j] = "completed"
      BY <1>1, <1>2, <3>1 DEF KeepsFree
    <3> QED
      BY <3>1, <3>2 DEF Settled
  <2> QED
    BY <2>1, <2>2
<1> QED
  BY <1>2 DEF KeepsSettled

\* What is in a pipe.
LEMMA LinesAre ==
  ASSUME NEW S, NEW s \in Seq(S)
  PROVE  /\ Lines(<<>>) = {} /\ Lines(s) \subseteq S
         /\ \A x \in S : Lines(Append(s, x)) = Lines(s) \cup {x}
         /\ s # <<>> => Head(s) \in Lines(s) /\ Lines(Tail(s)) \subseteq Lines(s)
<1>1. DOMAIN s = 1..Len(s) /\ Len(s) \in Nat
  BY LenProperties
<1>2. Lines(<<>>) = {}
  <2>1. DOMAIN <<>> = {}
    OBVIOUS
  <2> QED
    BY <2>1 DEF Lines
<1>3. Lines(s) \subseteq S
  BY <1>1, ElementOfSeq DEF Lines
<1>4. ASSUME NEW x \in S PROVE Lines(Append(s, x)) = Lines(s) \cup {x}
  <2>1. /\ Append(s, x) \in Seq(S) /\ Len(Append(s, x)) = Len(s) + 1 /\ Append(s, x)[Len(s) + 1] = x
        /\ \A i \in 1..Len(s) : Append(s, x)[i] = s[i]
    BY AppendProperties
  <2>2. DOMAIN Append(s, x) = 1..(Len(s) + 1)
    BY <2>1, LenProperties
  <2>3. ASSUME NEW i \in 1..(Len(s) + 1) PROVE Append(s, x)[i] \in Lines(s) \cup {x}
    <3>1. CASE i \in 1..Len(s)
      BY <1>1, <2>1, <3>1 DEF Lines
    <3>2. CASE i = Len(s) + 1
      BY <2>1, <3>2
    <3> QED
      BY <1>1, <3>1, <3>2
  <2>4. ASSUME NEW i \in 1..Len(s) PROVE s[i] \in Lines(Append(s, x))
    <3>1. i \in 1..(Len(s) + 1) /\ Append(s, x)[i] = s[i]
      BY <1>1, <2>1
    <3> QED
      BY <2>2, <3>1 DEF Lines
  <2>5. x \in Lines(Append(s, x))
    <3>1. Len(s) + 1 \in 1..(Len(s) + 1)
      BY <1>1
    <3> QED
      BY <2>1, <2>2, <3>1 DEF Lines
  <2> QED
    BY <1>1, <2>2, <2>3, <2>4, <2>5 DEF Lines
<1>5. ASSUME s # <<>> PROVE Head(s) \in Lines(s) /\ Lines(Tail(s)) \subseteq Lines(s)
  <2>1. /\ Len(s) # 0 /\ Head(s) = s[1] /\ Tail(s) \in Seq(S) /\ Len(Tail(s)) = Len(s) - 1
        /\ \A i \in 1..Len(Tail(s)) : Tail(s)[i] = s[i + 1]
    BY <1>5, HeadTailProperties, EmptySeq
  <2>2. DOMAIN Tail(s) = 1..(Len(s) - 1)
    BY <2>1, LenProperties
  <2>3. Head(s) \in Lines(s)
    BY <1>1, <2>1 DEF Lines
  <2>4. ASSUME NEW i \in 1..(Len(s) - 1) PROVE Tail(s)[i] \in Lines(s)
    <3>1. i + 1 \in 1..Len(s) /\ Tail(s)[i] = s[i + 1]
      BY <1>1, <2>1
    <3> QED
      BY <1>1, <3>1 DEF Lines
  <2> QED
    BY <2>2, <2>3, <2>4 DEF Lines
<1> QED
  BY <1>2, <1>3, <1>4, <1>5

\* The answers to a call stay its answers.
LEMMA AnswersStay ==
  ASSUME Frame, KeepsSettled, NEW t \in Threads, call[t].at # "none", call'[t].req = call[t].req, NEW l, Answers(t, l)
  PROVE  Answers(t, l)'
<1>1. CASE call[t].req.op \in {"cover", "resume"}
  <2>1. t = "worker" /\ worker.run
    BY <1>1 DEF Frame, CallsKnown, Threads
  <2>2. Settled(l.job)
    BY <1>1 DEF Answers
  <2>3. Settled(l.job)'
    BY <2>1, <2>2 DEF KeepsSettled
  <2> QED
    BY <2>3 DEF Answers
<1>2. CASE call[t].req.op \notin {"cover", "resume"}
  BY <1>2 DEF Answers
<1> QED
  BY <1>1, <1>2

\* A call and a pipe between which nothing new is said.
LEMMA OwnStays ==
  ASSUME Frame, KeepsSettled, NEW t \in Threads, NEW e \in Engines, OwnAnswers(t, e),
         Speaks(t, e)' => Speaks(t, e) /\ call'[t].req = call[t].req,
         \A r \in Lines(inbox'[e]) \ Lines(inbox[e]) : r.id = call'[t].req.id => r = call'[t].req,
         \/ engine'[e].at = "idle"
         \/ engine[e].at # "idle" /\ engine'[e].req = engine[e].req
         \/ engine'[e].req \in Lines(inbox[e]),
         \A l \in Lines(outbox'[e]) \ Lines(outbox[e]) :
           Speaks(t, e)' /\ l.kind = "ok" /\ l.id = call[t].req.id => Answers(t, l)'
  PROVE  OwnAnswers(t, e)'
<1> SUFFICES ASSUME Speaks(t, e)' PROVE OwnAnswers(t, e)'
  BY DEF OwnAnswers
<1>1. Speaks(t, e) /\ call'[t].req = call[t].req /\ call[t].at # "none"
  BY DEF Speaks
<1>2. /\ \A r \in Lines(inbox[e]) : r.id = call[t].req.id => r = call[t].req
      /\ engine[e].at # "idle" => (engine[e].req.id = call[t].req.id => engine[e].req = call[t].req)
      /\ \A l \in Lines(outbox[e]) : l.kind = "ok" /\ l.id = call[t].req.id => Answers(t, l)
  BY <1>1 DEF OwnAnswers
<1>3. \A r \in Lines(inbox'[e]) : r.id = call'[t].req.id => r = call'[t].req
  BY <1>1, <1>2
<1>4. engine'[e].at # "idle" => (engine'[e].req.id = call'[t].req.id => engine'[e].req = call'[t].req)
  BY <1>1, <1>2
<1>5. ASSUME NEW l \in Lines(outbox'[e]), l.kind = "ok", l.id = call'[t].req.id PROVE Answers(t, l)'
  BY <1>1, <1>2, <1>5, AnswersStay
<1> QED
  BY <1>3, <1>4, <1>5 DEF OwnAnswers, Lines

\* A step of one engine, which writes answers only.
LEMMA EngineOwn ==
  ASSUME IInv, KeepsSettled, NEW e \in Engines, UNCHANGED <<call, worker>>,
         \A d \in Engines \ {e} : engine'[d] = engine[d] /\ inbox'[d] = inbox[d] /\ outbox'[d] = outbox[d],
         engine'[e].heard => engine[e].heard, Lines(inbox'[e]) \subseteq Lines(inbox[e]),
         \/ engine'[e].at = "idle"
         \/ engine[e].at # "idle" /\ engine'[e].req = engine[e].req
         \/ engine'[e].req \in Lines(inbox[e]),
         \A t \in Threads : \A l \in Lines(outbox'[e]) \ Lines(outbox[e]) :
           Speaks(t, e) /\ l.kind = "ok" /\ l.id = call[t].req.id => Answers(t, l)'
  PROVE  Own' /\ TwoIds' /\ PostedKnown'
<1>1. Frame /\ Own /\ TwoIds /\ PostedKnown
  BY DEF IInv, Known
<1>2. ASSUME NEW t \in Threads, NEW d \in Engines PROVE OwnAnswers(t, d)'
  <2>1. OwnAnswers(t, d) /\ (engine'[d].heard => engine[d].heard)
    BY <1>1 DEF Own
  <2>2. Speaks(t, d)' => Speaks(t, d) /\ call'[t].req = call[t].req
    BY <2>1 DEF Speaks
  <2>3. CASE d = e
    BY <1>1, <2>1, <2>2, <2>3, OwnStays
  <2>4. CASE d # e
    <3>1. engine'[d] = engine[d] /\ inbox'[d] = inbox[d] /\ outbox'[d] = outbox[d]
      BY <2>4
    <3>2. engine'[d].at = "idle" \/ (engine[d].at # "idle" /\ engine'[d].req = engine[d].req)
      BY <3>1
    <3>3. Lines(inbox'[d]) \ Lines(inbox[d]) = {} /\ Lines(outbox'[d]) \ Lines(outbox[d]) = {}
      BY <3>1
    <3> QED
      BY <1>1, <2>1, <2>2, <3>2, <3>3, OwnStays
  <2> QED
    BY <2>3, <2>4
<1>3. PostedKnown'
  <2>1. worker.posted = <<"succeeded", "finished">> => worker.run
    <3>1. <<"succeeded", "finished">> # <<>>
      OBVIOUS
    <3> QED
      BY <1>1, <3>1, Quiet DEF Frame, CallsKnown, NoWorker
  <2>2. ASSUME worker.posted = <<"succeeded", "finished">>, worker.shows # "none" PROVE Settled(worker.result)'
    BY <1>1, <2>1, <2>2 DEF PostedKnown, KeepsSettled, Settled, Free
  <2> QED
    BY <2>2 DEF PostedKnown
<1>4. TwoIds'
  BY <1>1 DEF TwoIds
<1> QED
  BY <1>2, <1>3, <1>4 DEF Own

\* What an answer puts into the pipe.
LEMMA AnswerLines ==
  ASSUME Counted, Frame, NEW e \in Engines, NEW r \in Request, NEW kind \in {"ok", "error", "noise"},
         NEW j \in Jobs \cup {None}, NEW rest, AnswerTo(e, r, kind, j, rest)
  PROVE  /\ \A d \in Engines \ {e} : outbox'[d] = outbox[d]
         /\ \A l \in Lines(outbox'[e]) \ Lines(outbox[e]) : l = [id |-> r.id, kind |-> kind, job |-> j]
         /\ engine'[e].heard => engine[e].heard
<1> DEFINE line == [id |-> r.id, kind |-> kind, job |-> j]
<1>1. engine \in [Engines -> Engine] /\ outbox \in [Engines -> Seq(Line)] /\ outbox[e] \in Seq(Line)
  BY DEF Frame, PipeTypes
<1>2. line \in Line
  BY DEF Line, Request
<1>3. CASE engine[e].heard
  <2>1. outbox' = [outbox EXCEPT ![e] = Append(@, line)]
    BY <1>3 DEF AnswerTo
  <2> HIDE DEF line
  <2>2. Lines(outbox'[e]) = Lines(outbox[e]) \cup {line}
    <3>1. outbox'[e] = Append(outbox[e], line)
      BY <1>1, <2>1
    <3> QED
      BY <1>1, <1>2, <3>1, LinesAre
  <2>3. \A d \in Engines \ {e} : outbox'[d] = outbox[d]
    BY <1>1, <2>1
  <2>4. \A l \in Lines(outbox'[e]) \ Lines(outbox[e]) : l = line
    BY <2>2
  <2> QED
    BY <1>3, <2>3, <2>4 DEF line
<1>4. CASE ~engine[e].heard
  <2>1. engine' = [engine EXCEPT ![e] = Down] /\ UNCHANGED outbox
    BY <1>4 DEF AnswerTo, Gone
  <2>2. ~engine'[e].heard
    BY <1>1, <2>1, Quiet
  <2> QED
    BY <2>1, <2>2
<1> QED
  BY <1>3, <1>4

\* What an engine has of a call that may hear it is the call's.
LEMMA OwnRequest ==
  ASSUME IInv, NEW t \in Threads, NEW e \in Engines, Speaks(t, e), NEW r,
         r \in Lines(inbox[e]) \/ (engine[e].at # "idle" /\ r = engine[e].req), r.id = call[t].req.id
  PROVE  r = call[t].req /\ Fits(r) /\ (t = "worker" \/ r.op \notin {"stage", "cover", "resume"})
         /\ (t = "worker" => worker.run)
<1>1. OwnAnswers(t, e) /\ CallsKnown /\ call[t].at # "none"
  BY DEF IInv, Own, Known, Frame, Speaks
<1>2. r = call[t].req
  BY <1>1 DEF OwnAnswers
<1> QED
  BY <1>1, <1>2 DEF CallsKnown, Threads

\* The lines of an engine that answers one request.
LEMMA ServeOwn ==
  ASSUME Counted, IInv, KeepsSettled, NEW e \in Engines, Serve(e)
  PROVE  Own' /\ TwoIds' /\ PostedKnown'
<1> DEFINE r == Head(inbox[e])  rest == Tail(inbox[e])
<1>1. /\ inbox \in [Engines -> Seq(Request)] /\ inbox[e] \in Seq(Request) /\ inbox[e] # <<>> /\ Frame
      /\ engine \in [Engines -> Engine] /\ engine[e] \in Engine /\ UNCHANGED <<call, worker>>
  BY DEF IInv, Known, Frame, PipeTypes, Serve, At, EngineRest
<1>2. r \in Lines(inbox[e]) /\ Lines(rest) \subseteq Lines(inbox[e]) /\ r \in Request /\ Lines(<<>>) = {}
  BY <1>1, LinesAre
<1>3. ASSUME NEW j \in Jobs \cup {None}, AnswerTo(e, r, "ok", j, rest), r.op = "offer" \/ (r.op = "quick" /\ j = None)
      PROVE  Own' /\ TwoIds' /\ PostedKnown'
  <2> HIDE DEF r, rest
  <2>1. /\ engine'[e].at = "idle" /\ (inbox'[e] = rest \/ inbox'[e] = <<>>)
        /\ \A d \in Engines \ {e} : engine'[d] = engine[d] /\ inbox'[d] = inbox[d]
    BY <1>1, <1>3, AnswerIs
  <2>2. /\ \A d \in Engines \ {e} : outbox'[d] = outbox[d]
        /\ \A l \in Lines(outbox'[e]) \ Lines(outbox[e]) : l = [id |-> r.id, kind |-> "ok", job |-> j]
        /\ engine'[e].heard => engine[e].heard
    BY <1>1, <1>2, <1>3, AnswerLines
  <2>3. ASSUME NEW t \in Threads, NEW l \in Lines(outbox'[e]) \ Lines(outbox[e]), Speaks(t, e), l.id = call[t].req.id
        PROVE  Answers(t, l)'
    <3>1. l.job = j /\ r.id = call[t].req.id
      BY <2>2, <2>3
    <3>2. r = call[t].req /\ Fits(r)
      BY <1>2, <2>3, <3>1, OwnRequest
    <3> QED
      BY <1>1, <1>3, <3>1, <3>2 DEF Answers, Fits
  <2>4. Lines(inbox'[e]) \subseteq Lines(inbox[e])
    BY <1>2, <2>1
  <2> QED
    BY <1>1, <2>1, <2>2, <2>3, <2>4, EngineOwn
<1>4. CASE r.op \in {"stage", "cover", "resume"} /\ engine' = [engine EXCEPT ![e].at = r.op, ![e].req = r]
           /\ inbox' = [inbox EXCEPT ![e] = rest] /\ UNCHANGED outbox
  <2> HIDE DEF r, rest
  <2>1. engine'[e].req = r /\ engine'[e].heard = engine[e].heard /\ inbox'[e] = rest
        /\ \A d \in Engines \ {e} : engine'[d] = engine[d] /\ inbox'[d] = inbox[d]
    BY <1>1, <1>4 DEF Engine
  <2> QED
    BY <1>1, <1>2, <1>4, <2>1, EngineOwn
<1>5. CASE \/ r.op = "quick" /\ AnswerTo(e, r, "ok", None, rest)
           \/ r.op = "offer" /\ \E j \in Offers : AnswerTo(e, r, "ok", j, rest)
  <2> HIDE DEF r, rest
  <2>1. \A j \in Offers : j \in Jobs \cup {None}
    BY DEF Offers
  <2> QED
    BY <1>3, <1>5, <2>1
<1> QED
  BY <1>4, <1>5 DEF Serve

\* The answer of a cover is that it is settled.
LEMMA FinishSettles ==
  ASSUME Counted, Known, NEW e \in Engines, Finish(e), Answer(e, "ok", Job(e)),
         request' = [request EXCEPT ![Job(e)] = FALSE], NEW j, j = Job(e)
  PROVE  Settled(j)'
<1>1. engine[e].at = "finish" /\ Working(e) /\ Frame /\ NotBegun /\ JobsKnown /\ request \in [Jobs -> BOOLEAN]
      /\ UNCHANGED <<snap, shared>>
  BY DEF Known, At, Working, AtWork, Frame, DiskTypes, Finish
<1>2. j \in Jobs
  BY <1>1 DEF Frame, EngineKnown, Fits, Job
<1>3. CASE j \in shared
  BY <1>1, <1>2, <1>3 DEF Settled
<1>4. CASE j \notin shared
  <2>1. snap[j] = "completed" /\ WorkKnown(e)
    BY <1>1, <1>4 DEF JobsKnown, WorkKnown
  <2>2. ~Working(e)' /\ \A d \in Engines \ {e} : engine'[d] = engine[d] /\ inbox'[d] = inbox[d]
    BY <1>1, AnswerIs DEF Answer
  <2>3. ASSUME NEW d \in Engines, Working(d)' PROVE Job(d)' # j
    <3>1. d # e /\ engine'[d] = engine[d]
      BY <2>2, <2>3
    <3>2. Working(d) /\ Job(d)' = Job(d)
      BY <2>3, <3>1 DEF Working, Job
    <3> QED
      BY <1>1, <1>4, <3>1, <3>2 DEF JobsKnown, OneEngine
  <2>4. ASSUME NEW p \in Places, Waits(p)' PROVE JobAt(p)' # j
    <3>1. Waits(p) /\ JobAt(p)' = JobAt(p)
      <4>1. inbox'[e] = inbox[e] \/ inbox'[e] = <<>>
        BY <1>1, AnswerIs DEF Answer
      <4>2. UNCHANGED call /\ engine'[e].at # "cover"
        BY <2>2, AnswerIs, <1>1 DEF Finish, EngineRest, Answer
      <4>3. CASE p = <<None, 0>>
        BY <2>4, <4>2, <4>3 DEF Waits, JobAt
      <4>4. ASSUME NEW d \in Engines, p = <<d, 0>>, p # <<None, 0>> PROVE Waits(p) /\ JobAt(p)' = JobAt(p)
        <5>1. d # e
          BY <2>4, <4>2, <4>4 DEF Waits
        <5> QED
          BY <2>2, <2>4, <4>4, <5>1 DEF Waits, JobAt, Job
      <4>5. ASSUME NEW d \in Engines, NEW i \in Nat \ {0}, p = <<d, i>>, p # <<None, 0>> PROVE Waits(p) /\ JobAt(p)' = JobAt(p)
        <5>1. i \in DOMAIN inbox'[d]
          BY <2>4, <4>5 DEF Waits
        <5>2. inbox'[d] = inbox[d]
          BY <2>2, <4>1, <5>1
        <5> QED
          BY <2>4, <4>5, <5>2 DEF Waits, JobAt
      <4> QED
        BY <4>3, <4>4, <4>5, PlaceIs
    <3>2. Job(e) # JobAt(p)
      BY <1>1, <3>1 DEF NotBegun
    <3> QED
      BY <3>1, <3>2
  <2>5. ~request'[j]
    BY <1>1, <1>2
  <2>6. Free(j)'
    BY <2>3, <2>4, <2>5 DEF Free
  <2> QED
    BY <1>1, <1>2, <2>1, <2>6 DEF Settled
<1> QED
  BY <1>3, <1>4

\* An engine that goes on, answers or ends.
LEMMA EnginesOwn ==
  ASSUME Counted, IInv, KeepsSettled, NEW e \in Engines,
         EngineStep(e) \/ CoverRefused(e) \/ RunFails(e) \/ EngineDies(e) \/ Noise(e)
  PROVE  Own' /\ TwoIds' /\ PostedKnown'
<1>1. /\ engine \in [Engines -> Engine] /\ inbox \in [Engines -> Seq(Request)] /\ outbox \in [Engines -> Seq(Line)]
      /\ Frame /\ Known /\ engine[e].req \in Request /\ EngineKnown(e)
  BY DEF IInv, Known, Frame, PipeTypes, Engine
<1>2. UNCHANGED <<call, worker>>
  BY DEF EngineStep, Serve, Stage, CoverRequest, LoadRequest, Execute, Run, Work, Copying, Publish, Complete, Finish, Failing,
         Exits, CoverRefused, RunFails, EngineDies, Noise, EngineRest
<1>2a. Lines(<<>>) = {}
  BY LinesAre, EmptySeq
<1>3. ASSUME NEW kind \in {"ok", "error"}, NEW j \in Jobs \cup {None}, Answer(e, kind, j), engine[e].at # "idle",
             kind = "ok" => /\ engine[e].req.op = "stage" => j = None
                            /\ engine[e].req.op # "stage" => engine[e].req.op \in {"cover", "resume"} /\ j = Job(e) /\ Settled(j)'
      PROVE  Own' /\ TwoIds' /\ PostedKnown'
  <2>1. /\ engine'[e].at = "idle" /\ (inbox'[e] = inbox[e] \/ inbox'[e] = <<>>)
        /\ \A d \in Engines \ {e} : engine'[d] = engine[d] /\ inbox'[d] = inbox[d]
    BY <1>1, <1>3, AnswerIs DEF Answer
  <2>2. /\ \A d \in Engines \ {e} : outbox'[d] = outbox[d]
        /\ \A l \in Lines(outbox'[e]) \ Lines(outbox[e]) : l = [id |-> engine[e].req.id, kind |-> kind, job |-> j]
        /\ engine'[e].heard => engine[e].heard
    <3>1. kind \in {"ok", "error", "noise"}
      OBVIOUS
    <3>2. AnswerTo(e, engine[e].req, kind, j, inbox[e])
      BY <1>3 DEF Answer
    <3> QED
      BY <1>1, <3>1, <3>2, AnswerLines
  <2>3. ASSUME NEW t \in Threads, NEW l \in Lines(outbox'[e]) \ Lines(outbox[e]), Speaks(t, e), l.kind = "ok", l.id = call[t].req.id
        PROVE  Answers(t, l)'
    <3>1. l.job = j /\ engine[e].req.id = call[t].req.id /\ kind = "ok"
      BY <2>2, <2>3
    <3>2. engine[e].req = call[t].req /\ Fits(engine[e].req)
      BY <1>3, <2>3, <3>1, OwnRequest
    <3>3. CASE engine[e].req.op = "stage"
      BY <1>2, <1>3, <3>1, <3>2, <3>3 DEF Answers, Fits
    <3>4. CASE engine[e].req.op # "stage"
      BY <1>2, <1>3, <3>1, <3>2, <3>4 DEF Answers, Job
    <3> QED
      BY <3>3, <3>4
  <2>4. Lines(inbox'[e]) \subseteq Lines(inbox[e])
    BY <1>2a, <2>1
  <2> QED
    BY <1>2, <2>1, <2>2, <2>3, <2>4, EngineOwn
<1>4. ASSUME NEW p, Goto(e, p), UNCHANGED <<inbox, outbox>>, engine[e].at # "idle"
      PROVE  Own' /\ TwoIds' /\ PostedKnown'
  <2>1. engine'[e].req = engine[e].req /\ engine'[e].heard = engine[e].heard /\ \A d \in Engines \ {e} : engine'[d] = engine[d]
    BY <1>1, <1>4, GoesTo
  <2> QED
    BY <1>2, <1>4, <2>1, EngineOwn
<1>5. CASE Serve(e)
  BY <1>5, ServeOwn
<1>6. CASE Stage(e) \/ CoverRefused(e)
  <2>1. engine[e].at # "idle" /\ (Answer(e, "error", None) \/ (Answer(e, "ok", None) /\ engine[e].at = "stage"))
    BY <1>6 DEF Stage, CoverRefused, At
  <2>2. engine[e].at = "stage" => engine[e].req.op = "stage"
    BY <1>1 DEF EngineKnown
  <2> QED
    BY <1>3, <2>1, <2>2
<1>7. CASE CoverRequest(e) \/ Execute(e) \/ Run(e) \/ Work(e) \/ Copying(e) \/ Publish(e) \/ Complete(e) \/ RunFails(e)
  <2>1. engine[e].at # "idle" /\ UNCHANGED <<inbox, outbox>> /\ \E p : Goto(e, p)
    BY <1>7 DEF CoverRequest, Execute, Run, Work, Copying, Publish, Complete, RunFails, At, Reports, Fails
  <2> QED
    BY <1>4, <2>1
<1>8. CASE LoadRequest(e)
  <2>1. engine[e].at # "idle" /\ (Answer(e, "error", None) \/ (Goto(e, "execute") /\ UNCHANGED <<inbox, outbox>>))
    BY <1>8 DEF LoadRequest, At
  <2> QED
    BY <1>3, <1>4, <2>1
<1>9. CASE Finish(e)
  <2>1. engine[e].at = "finish" /\ engine[e].req.op \in {"cover", "resume"} /\ Job(e) \in Jobs
    BY <1>1, <1>9 DEF Finish, At, EngineKnown, Working, AtWork, Fits, Job
  <2>2. PICK j \in Jobs : j = Job(e)
    BY <2>1
  <2>3. CASE Answer(e, "error", None)
    BY <1>3, <2>1, <2>3
  <2>4. CASE Answer(e, "ok", j) /\ request' = [request EXCEPT ![Job(e)] = FALSE]
    <3>1. Settled(j)'
      BY <1>1, <1>9, <2>2, <2>4, FinishSettles
    <3> QED
      BY <1>3, <2>1, <2>2, <2>4, <3>1
  <2> QED
    BY <1>9, <2>2, <2>3, <2>4 DEF Finish
<1>10. CASE Failing(e)
  <2>1. engine[e].at # "idle" /\ Answer(e, "error", None)
    BY <1>10 DEF Failing, At
  <2> QED
    BY <1>3, <2>1
<1>11. CASE Exits(e) \/ EngineDies(e)
  <2>1. /\ engine' = [engine EXCEPT ![e] = Down] /\ UNCHANGED outbox
        /\ inbox' = inbox \/ inbox' = [inbox EXCEPT ![e] = <<>>]
    BY <1>11 DEF Exits, EngineDies, Gone
  <2>2. engine'[e] = Down /\ (inbox'[e] = inbox[e] \/ inbox'[e] = <<>>)
        /\ \A d \in Engines \ {e} : engine'[d] = engine[d] /\ inbox'[d] = inbox[d]
    BY <1>1, <2>1
  <2>3. Lines(inbox'[e]) \subseteq Lines(inbox[e])
    BY <1>2a, <2>2
  <2>4. engine'[e].at = "idle" /\ ~engine'[e].heard
    BY <2>2, Quiet
  <2> QED
    BY <1>2, <2>1, <2>2, <2>3, <2>4, EngineOwn
<1>12. CASE Noise(e)
  <2> DEFINE line == [id |-> engine[e].req.id, kind |-> "noise", job |-> None]
  <2>1. UNCHANGED <<engine, inbox>> /\ outbox' = [outbox EXCEPT ![e] = Append(@, line)] /\ engine[e].at # "idle"
    BY <1>12 DEF Noise
  <2>2. line \in Line /\ line.kind = "noise"
    BY <1>1 DEF Line, Request
  <2> HIDE DEF line
  <2>3. outbox'[e] = Append(outbox[e], line) /\ outbox[e] \in Seq(Line) /\ \A d \in Engines \ {e} : outbox'[d] = outbox[d]
    BY <1>1, <2>1
  <2>4. Lines(outbox'[e]) = Lines(outbox[e]) \cup {line}
    BY <2>2, <2>3, LinesAre
  <2>5. \A l \in Lines(outbox'[e]) \ Lines(outbox[e]) : l.kind # "ok"
    BY <2>2, <2>4
  <2> QED
    BY <1>2, <2>1, <2>3, <2>5, EngineOwn
<1> QED
  BY <1>5, <1>6, <1>7, <1>8, <1>9, <1>10, <1>11, <1>12 DEF EngineStep

\* What was posted stays true.
LEMMA PostedStays ==
  ASSUME IInv, KeepsSettled, UNCHANGED worker
  PROVE  PostedKnown'
<1>1. Frame /\ PostedKnown
  BY DEF IInv, Known
<1>2. worker.posted = <<"succeeded", "finished">> => worker.run
  <2>1. <<"succeeded", "finished">> # <<>>
    OBVIOUS
  <2> QED
    BY <1>1, <2>1, Quiet DEF Frame, CallsKnown, NoWorker
<1>3. ASSUME worker.posted = <<"succeeded", "finished">>, worker.shows # "none" PROVE Settled(worker.result)'
  BY <1>1, <1>2, <1>3 DEF PostedKnown, KeepsSettled, Settled, Free
<1> QED
  BY <1>3 DEF PostedKnown

\* A call is given an engine, and sends its request.
LEMMA ClientOwn ==
  ASSUME Counted, IInv, KeepsSettled, NEW t \in Threads, ClientStep(t)
  PROVE  Own' /\ TwoIds' /\ PostedKnown'
<1>1. /\ engine \in [Engines -> Engine] /\ inbox \in [Engines -> Seq(Request)] /\ outbox \in [Engines -> Seq(Line)]
      /\ call \in [Threads -> Call] /\ Frame /\ CallsKnown /\ Own /\ TwoIds /\ UNCHANGED worker
  BY DEF IInv, Known, Frame, PipeTypes, WindowTypes, ClientStep, CallStart, CallWrite
<1>2. PostedKnown'
  BY <1>1, PostedStays
<1>3. CASE CallStart(t)
  <2>1. PICK q \in Engines : call' = [call EXCEPT ![t].at = "write", ![t].proc = q] /\ q = proc'
    <3>1. CASE proc # None /\ engine[proc].up
      <4>1. proc \in Engines /\ proc' = proc /\ call' = [call EXCEPT ![t].at = "write", ![t].proc = proc]
        BY <1>1, <1>3, <3>1 DEF CallStart, Frame, WindowTypes
      <4> QED
        BY <4>1
    <3>2. CASE ~(proc # None /\ engine[proc].up)
      <4>1. PICK x \in Engines : Spare(x)
        BY <1>3, <3>2 DEF CallStart
      <4>2. proc' \in Engines
        BY <1>3, <3>2, <4>1 DEF CallStart
      <4> QED
        BY <1>3, <3>2, <4>2 DEF CallStart
    <3> QED
      BY <3>1, <3>2
  <2>2. call'[t].req = call[t].req /\ call'[t].at = "write" /\ call'[t].proc = q /\ call[t].at = "start"
        /\ \A u \in Threads : u # t => call'[u] = call[u]
    BY <1>1, <1>3, <2>1 DEF Call, CallStart
  <2>3. TwoIds'
    BY <1>1, <2>2 DEF TwoIds, Threads
  <2>4. CASE proc # None /\ engine[proc].up
    <3>1. UNCHANGED <<engine, inbox, outbox, proc>> /\ engine[q].heard
      BY <1>1, <1>3, <2>1, <2>4 DEF CallStart, pipes, CallsKnown
    <3>2. ASSUME NEW u \in Threads, NEW d \in Engines PROVE OwnAnswers(u, d)'
      <4>1. Speaks(u, d)' => Speaks(u, d) /\ call'[u].req = call[u].req
        BY <2>2, <3>1 DEF Speaks
      <4>2. engine'[d].at = "idle" \/ (engine[d].at # "idle" /\ engine'[d].req = engine[d].req)
        BY <3>1
      <4>3. Lines(inbox'[d]) \ Lines(inbox[d]) = {} /\ Lines(outbox'[d]) \ Lines(outbox[d]) = {}
        BY <3>1
      <4> QED
        BY <1>1, <4>1, <4>2, <4>3, OwnStays DEF Own
    <3> QED
      BY <1>2, <2>3, <3>2 DEF Own
  <2>5. CASE ~(proc # None /\ engine[proc].up)
    <3>1. PICK x \in Engines : Spare(x)
      BY <1>3, <2>5 DEF CallStart
    <3>2. Spare(q)
      BY <1>3, <2>1, <2>5, <3>1 DEF CallStart
    <3>3. /\ engine' = [engine EXCEPT ![q] = [Down EXCEPT !.up = TRUE, !.open = TRUE, !.heard = TRUE]] /\ UNCHANGED inbox
          /\ outbox' = [d \in Engines |-> IF Spare(d) THEN <<>> ELSE outbox[d]]
      BY <1>3, <2>1, <2>5 DEF CallStart
    <3>4. engine'[q].at = "idle" /\ \A d \in Engines \ {q} : engine'[d] = engine[d]
      BY <1>1, <3>3, Quiet DEF Down
    <3>5. inbox'[q] = <<>> /\ outbox'[q] = <<>> /\ \A d \in Engines : outbox'[d] = <<>> \/ outbox'[d] = outbox[d]
      <4>1. EngineKnown(q) /\ ~engine[q].up
        BY <1>1, <3>2 DEF Frame, Spare
      <4> QED
        BY <3>2, <3>3, <4>1 DEF EngineKnown
    <3>6. Lines(<<>>) = {}
      BY LinesAre, EmptySeq
    <3>7. ASSUME NEW u \in Threads, NEW d \in Engines PROVE OwnAnswers(u, d)'
      <4>1. CASE d = q
        BY <3>4, <3>5, <3>6, <4>1 DEF OwnAnswers, Lines
      <4>2. CASE d # q
        <5>1. Speaks(u, d)' => Speaks(u, d) /\ call'[u].req = call[u].req
          BY <2>2, <3>4, <4>2 DEF Speaks
        <5>2. engine'[d].at = "idle" \/ (engine[d].at # "idle" /\ engine'[d].req = engine[d].req)
          BY <3>4, <4>2
        <5>3. Lines(inbox'[d]) \ Lines(inbox[d]) = {} /\ Lines(outbox'[d]) \ Lines(outbox[d]) = {}
          BY <3>3, <3>5, <3>6
        <5> QED
          BY <1>1, <5>1, <5>2, <5>3, OwnStays DEF Own
      <4> QED
        BY <4>1, <4>2
    <3> QED
      BY <1>2, <2>3, <3>7 DEF Own
  <2> QED
    BY <2>4, <2>5
<1>4. CASE CallWrite(t)
  <2> DEFINE e == call[t].proc  x == call[t].req
  <2>1. /\ call[t].at = "write" /\ inbox' = [inbox EXCEPT ![e] = Append(@, x)] /\ UNCHANGED <<engine, outbox>>
        /\ call' = [call EXCEPT ![t].at = "read"]
    BY <1>4 DEF CallWrite
  <2>2. e \in Engines /\ x \in Request
    BY <1>1, <2>1 DEF CallsKnown, Call
  <2>3. call'[t].at = "read" /\ call'[t].proc = e /\ call'[t].req = x /\ \A u \in Threads : u # t => call'[u] = call[u]
    BY <1>1, <2>1 DEF Call
  <2>4. TwoIds'
    BY <1>1, <2>1, <2>3 DEF TwoIds, Threads
  <2>5. Lines(inbox'[e]) = Lines(inbox[e]) \cup {x} /\ \A d \in Engines : d # e => inbox'[d] = inbox[d]
    <3>1. inbox'[e] = Append(inbox[e], x) /\ \A d \in Engines : d # e => inbox'[d] = inbox[d]
      BY <1>1, <2>1, <2>2
    <3>2. inbox[e] \in Seq(Request)
      BY <1>1, <2>2
    <3> HIDE DEF e, x
    <3> QED
      BY <2>2, <3>1, <3>2, LinesAre
  <2>6. ASSUME NEW u \in Threads, NEW d \in Engines PROVE OwnAnswers(u, d)'
    <3>1. Speaks(u, d)' => Speaks(u, d) /\ call'[u].req = call[u].req
      BY <2>1, <2>3 DEF Speaks
    <3>2. ASSUME Speaks(u, d)', NEW r \in Lines(inbox'[d]) \ Lines(inbox[d]), r.id = call'[u].req.id PROVE r = call'[u].req
      <4>1. r = x /\ d = e
        BY <2>5, <3>2
      <4>2. CASE u = t
        BY <2>3, <4>1, <4>2
      <4>3. CASE u # t
        BY <1>1, <2>1, <3>1, <3>2, <4>1, <4>3 DEF TwoIds, Threads, Speaks
      <4> QED
        BY <4>2, <4>3
    <3>3. engine'[d].at = "idle" \/ (engine[d].at # "idle" /\ engine'[d].req = engine[d].req)
      BY <2>1
    <3>4. Lines(outbox'[d]) \ Lines(outbox[d]) = {}
      BY <2>1
    <3>5. CASE Speaks(u, d)'
      <4>1. OwnAnswers(u, d)
        BY <1>1 DEF Own
      <4> QED
        BY <1>1, <3>1, <3>2, <3>3, <3>4, <3>5, <4>1, OwnStays
    <3>6. CASE ~Speaks(u, d)'
      BY <3>6 DEF OwnAnswers
    <3> QED
      BY <3>5, <3>6
  <2> QED
    BY <1>2, <2>4, <2>6 DEF Own
<1> QED
  BY <1>3, <1>4 DEF ClientStep

\* A call that ends has taken a line at most, and succeeds with an answer of its own.
LEMMA ReturnsOwn ==
  ASSUME IInv, NEW t \in Threads, NEW ok \in BOOLEAN, NEW j \in Jobs \cup {None}, Returns(t, ok, j)
  PROVE  /\ \A d \in Engines : Lines(outbox'[d]) \subseteq Lines(outbox[d])
         /\ ok => \E l : l.job = j /\ Answers(t, l)
<1> DEFINE e == call[t].proc
<1>1. Frame /\ Own /\ outbox \in [Engines -> Seq(Line)]
  BY DEF IInv, Known, Frame, PipeTypes
<1>2. e \in Engines /\ call[t].at \in {"write", "read"}
  BY <1>1, Returning
<1>3. outbox[e] \in Seq(Line)
  BY <1>1, <1>2
<1>4. CASE UNCHANGED outbox /\ ~ok
  BY <1>4
<1>5. CASE ~(UNCHANGED outbox /\ ~ok)
  <2>1. /\ call[t].at = "read" /\ outbox[e] # <<>> /\ ok = Answered(t, Head(outbox[e]))
        /\ j = IF ok THEN Head(outbox[e]).job ELSE None
        /\ outbox' = [outbox EXCEPT ![e] = Tail(@)]
    BY <1>5 DEF Returns
  <2>2. Head(outbox[e]) \in Lines(outbox[e]) /\ Lines(Tail(outbox[e])) \subseteq Lines(outbox[e])
    BY <1>3, <2>1, LinesAre
  <2>3. \A d \in Engines : outbox'[d] = IF d = e THEN Tail(outbox[e]) ELSE outbox[d]
    BY <1>1, <1>2, <2>1
  <2>4. \A d \in Engines : Lines(outbox'[d]) \subseteq Lines(outbox[d])
    BY <2>2, <2>3
  <2>5. ASSUME ok PROVE Head(outbox[e]).job = j /\ Answers(t, Head(outbox[e]))
    <3>1. Head(outbox[e]).job = j /\ Head(outbox[e]).kind = "ok" /\ Head(outbox[e]).id = call[t].req.id
      BY <2>1, <2>5 DEF Answered
    <3>2. OwnAnswers(t, e) /\ Speaks(t, e)
      BY <1>1, <1>2, <2>1 DEF Own, Speaks
    <3> QED
      BY <2>2, <3>1, <3>2 DEF OwnAnswers
  <2> QED
    BY <2>4, <2>5
<1> QED
  BY <1>4, <1>5

\* Calls end, engines end, lines are taken: nothing new is said.
LEMMA Less ==
  ASSUME Counted, IInv, KeepsSettled, \A t \in Threads : call'[t] = call[t] \/ call'[t] = NoCall,
         \A d \in Engines : /\ engine'[d].heard => engine[d].heard
                            /\ engine'[d].at = "idle" \/ (engine[d].at # "idle" /\ engine'[d].req = engine[d].req)
                            /\ Lines(inbox'[d]) \subseteq Lines(inbox[d])
                            /\ Lines(outbox'[d]) \subseteq Lines(outbox[d])
  PROVE  Own' /\ TwoIds'
<1>1. Frame /\ Own /\ TwoIds /\ NoCall.at = "none"
  BY Quiet DEF IInv, Known
<1>2. ASSUME NEW t \in Threads, NEW d \in Engines PROVE OwnAnswers(t, d)'
  <2>1. OwnAnswers(t, d) /\ (engine'[d].heard => engine[d].heard)
    BY <1>1 DEF Own
  <2>2. Speaks(t, d)' => Speaks(t, d) /\ call'[t].req = call[t].req
    BY <1>1, <2>1 DEF Speaks
  <2>3. Lines(inbox'[d]) \ Lines(inbox[d]) = {} /\ Lines(outbox'[d]) \ Lines(outbox[d]) = {}
    OBVIOUS
  <2>4. engine'[d].at = "idle" \/ (engine[d].at # "idle" /\ engine'[d].req = engine[d].req)
    OBVIOUS
  <2> QED
    BY <1>1, <2>1, <2>2, <2>3, <2>4, OwnStays
<1>3. TwoIds'
  BY <1>1 DEF TwoIds, Threads
<1> QED
  BY <1>2, <1>3 DEF Own

\* A call that begins has an id that nothing has.
LEMMA Begins ==
  ASSUME Counted, IInv, KeepsSettled, NEW t \in Threads, call'[t].at = "start", call'[t].req.id = NewId,
         \A u \in Threads : u # t => call'[u] = call[u] \/ call'[u] = NoCall,
         UNCHANGED <<engine, inbox>>, \A d \in Engines : Lines(outbox'[d]) \subseteq Lines(outbox[d])
  PROVE  Own' /\ TwoIds'
<1>1. Frame /\ Own /\ TwoIds /\ NoCall.at = "none"
  BY Quiet DEF IInv, Known
<1>2. NewId \notin Used
  BY <1>1, Fresh
<1>3. ASSUME NEW e \in Engines, engine[e].heard
      PROVE  /\ \A r \in Lines(inbox[e]) : r.id # NewId
             /\ \A l \in Lines(outbox[e]) : l.id # NewId
             /\ engine[e].at # "idle" => engine[e].req.id # NewId
  BY <1>2, <1>3 DEF Used, Lines
<1>4. ASSUME NEW e \in Engines PROVE OwnAnswers(t, e)'
  <2>1. Speaks(t, e)' => engine[e].heard
    BY DEF Speaks
  <2>2. ASSUME Speaks(t, e)'
        PROVE  /\ \A r \in Lines(inbox'[e]) : r.id # call'[t].req.id
               /\ \A l \in Lines(outbox'[e]) : l.id # call'[t].req.id
               /\ engine'[e].at # "idle" => engine'[e].req.id # call'[t].req.id
    BY <1>3, <2>1, <2>2
  <2> QED
    BY <2>2 DEF OwnAnswers, Lines
<1>5. ASSUME NEW u \in Threads, u # t, NEW e \in Engines PROVE OwnAnswers(u, e)'
  <2>1. OwnAnswers(u, e)
    BY <1>1 DEF Own
  <2>2. Speaks(u, e)' => Speaks(u, e) /\ call'[u].req = call[u].req
    BY <1>1, <1>5 DEF Speaks
  <2>3. Lines(inbox'[e]) \ Lines(inbox[e]) = {} /\ Lines(outbox'[e]) \ Lines(outbox[e]) = {}
    OBVIOUS
  <2>4. engine'[e].at = "idle" \/ (engine[e].at # "idle" /\ engine'[e].req = engine[e].req)
    OBVIOUS
  <2> QED
    BY <1>1, <2>1, <2>2, <2>3, <2>4, OwnStays
<1>6. TwoIds'
  <2>1. \A u \in Threads : call[u].at # "none" => call[u].req.id # NewId
    BY <1>2 DEF Used
  <2> QED
    BY <1>1, <2>1 DEF TwoIds, Threads
<1> QED
  BY <1>4, <1>5, <1>6 DEF Own

\* A worker is started, or nothing is done.
LEMMA StartOwn ==
  ASSUME Counted, IInv, KeepsSettled, NEW w, NEW c \in [Threads -> Call], c["worker"] = call["worker"],
         c["gui"] = call["gui"] \/ c["gui"] = NoCall, NEW op, NEW j, NEW out, NEW shows,
         StartWorker(w, c, op, j, out, shows), UNCHANGED <<engine, inbox>>,
         \A d \in Engines : Lines(outbox'[d]) \subseteq Lines(outbox[d])
  PROVE  Own' /\ TwoIds' /\ PostedKnown'
<1>1. CASE Busy
  <2>1. call' = c /\ UNCHANGED worker
    BY <1>1 DEF StartWorker
  <2>2. \A t \in Threads : call'[t] = call[t] \/ call'[t] = NoCall
    BY <2>1 DEF Threads
  <2>3. \A d \in Engines : engine'[d].at = "idle" \/ (engine[d].at # "idle" /\ engine'[d].req = engine[d].req)
    OBVIOUS
  <2> QED
    BY <2>1, <2>2, <2>3, Less, PostedStays
<1>2. CASE ~Busy
  <2>1. call' = [c EXCEPT !["worker"] = Calling(op, j, out)] /\ worker' = [NoWorker EXCEPT !.run = TRUE, !.shows = shows]
    BY <1>2 DEF StartWorker
  <2>2. call'["worker"] = Calling(op, j, out) /\ call'["gui"] = c["gui"]
    BY <2>1 DEF Threads
  <2>3. call'["worker"].at = "start" /\ call'["worker"].req.id = NewId
    BY <2>2 DEF Calling
  <2>4. \A u \in Threads : u # "worker" => call'[u] = call[u] \/ call'[u] = NoCall
    BY <2>2 DEF Threads
  <2>5. PostedKnown'
    <3>1. worker'.posted = <<>>
      BY <2>1 DEF NoWorker
    <3>2. <<"succeeded", "finished">> # <<>>
      OBVIOUS
    <3> QED
      BY <3>1, <3>2 DEF PostedKnown
  <2> QED
    BY <2>3, <2>4, <2>5, Begins DEF Threads
<1> QED
  BY <1>1, <1>2

\* The worker's call ends, and what it posted is taken.
LEMMA WorkerOwn ==
  ASSUME Counted, IInv, KeepsSettled, WorkerReturns \/ TakePosted
  PROVE  Own' /\ TwoIds' /\ PostedKnown'
<1>1. Frame /\ CallsKnown /\ call \in [Threads -> Call] /\ worker \in Worker
  BY DEF IInv, Known, Frame, WindowTypes
<1>2. \A d \in Engines : UNCHANGED engine => engine'[d].at = "idle" \/ (engine[d].at # "idle" /\ engine'[d].req = engine[d].req)
  OBVIOUS
<1>3. CASE WorkerReturns
  <2>1. PICK ok \in BOOLEAN, j \in Jobs \cup {None} :
          /\ Returns("worker", ok, j)
          /\ worker' = [worker EXCEPT !.result = j, !.posted = <<IF ok THEN "succeeded" ELSE "failed", "finished">>]
    BY <1>3 DEF WorkerReturns
  <2>2. UNCHANGED <<engine, inbox>> /\ call' = [call EXCEPT !["worker"] = NoCall]
    BY <1>3 DEF WorkerReturns
  <2>3. /\ \A d \in Engines : Lines(outbox'[d]) \subseteq Lines(outbox[d])
        /\ ok => \E l : l.job = j /\ Answers("worker", l)
    BY <2>1, ReturnsOwn DEF Threads
  <2>4. \A t \in Threads : call'[t] = call[t] \/ call'[t] = NoCall
    BY <1>1, <2>2
  <2>5. Own' /\ TwoIds'
    BY <1>2, <2>2, <2>3, <2>4, Less
  <2>6. call["worker"].at # "none"
    BY <2>1, Returning, <1>1 DEF Threads
  <2>7. worker.run /\ (worker.shows # "none" => call["worker"].req.op \in {"cover", "resume"})
    BY <1>1, <2>6 DEF CallsKnown
  <2>8. worker'.result = j /\ worker'.shows = worker.shows /\ (worker'.posted = <<"succeeded", "finished">> => ok)
    BY <1>1, <2>1 DEF Worker
  <2>9. ASSUME ok, worker.shows # "none" PROVE Settled(j)'
    <3>1. PICK l : l.job = j /\ Answers("worker", l)
      BY <2>3, <2>9
    <3>2. Settled(j)
      BY <2>7, <2>9, <3>1 DEF Answers
    <3> QED
      BY <2>7, <3>2 DEF KeepsSettled
  <2>10. PostedKnown'
    BY <2>8, <2>9 DEF PostedKnown, Settled, Free
  <2> QED
    BY <2>5, <2>10
<1>4. CASE TakePosted
  <2>1. UNCHANGED <<call, engine, inbox, outbox>> /\ worker.posted # <<>>
        /\ worker' \in {NoWorker, [worker EXCEPT !.posted = Tail(@)]}
    BY <1>4 DEF TakePosted, GuiRest, pipes
  <2>2. Own' /\ TwoIds'
    BY <1>2, <2>1, Less
  <2>3. worker'.posted # <<"succeeded", "finished">>
    <3>1. worker.posted \in {<<"finished">>, <<"succeeded", "finished">>, <<"failed", "finished">>}
      BY <1>1, <2>1 DEF Worker
    <3>2. Tail(<<"finished">>) = <<>> /\ Tail(<<"succeeded", "finished">>) = <<"finished">> /\ Tail(<<"failed", "finished">>) = <<"finished">>
      OBVIOUS
    <3>3. <<>> # <<"succeeded", "finished">> /\ <<"finished">> # <<"succeeded", "finished">>
      OBVIOUS
    <3>4. worker'.posted = <<>> \/ worker'.posted = Tail(worker.posted)
      BY <1>1, <2>1, Quiet DEF Worker
    <3> QED
      BY <3>1, <3>2, <3>3, <3>4
  <2> QED
    BY <2>2, <2>3 DEF PostedKnown
<1> QED
  BY <1>3, <1>4

\* What the user does, and what the GUI thread does with its answer.
LEMMA GuiOwn ==
  ASSUME Counted, IInv, KeepsSettled,
         Visit \/ Settings \/ CheckUpdate \/ OpenProject \/ Wizard \/ Turns \/ Preview \/ Full \/ Open \/ GuiReturns
  PROVE  Own' /\ TwoIds' /\ PostedKnown'
<1>1. Frame /\ call \in [Threads -> Call]
  BY DEF IInv, Known, Frame, WindowTypes
<1>2. UNCHANGED <<engine, inbox>>
  BY DEF Visit, Settings, CheckUpdate, OpenProject, Wizard, Turns, Turn, Preview, Full, Open, GuiReturns, Asks, GuiRest, pipes
<1>3. \A d \in Engines : engine'[d].at = "idle" \/ (engine[d].at # "idle" /\ engine'[d].req = engine[d].req)
  BY <1>2
<1>4. CASE Visit \/ Settings \/ CheckUpdate \/ OpenProject \/ Preview \/ Open
  <2>1. UNCHANGED <<outbox, worker>> /\ \E op : call' = [call EXCEPT !["gui"] = Calling(op, None, Inside)]
    BY <1>4 DEF Visit, Settings, CheckUpdate, OpenProject, Preview, Open, Asks, GuiRest, pipes
  <2>2. call'["gui"].at = "start" /\ call'["gui"].req.id = NewId /\ call'["worker"] = call["worker"]
    BY <1>1, <2>1 DEF Threads, Calling
  <2>3. "gui" \in Threads /\ \A u \in Threads : u # "gui" => call'[u] = call[u]
    BY <2>2 DEF Threads
  <2> QED
    BY <1>2, <2>1, <2>2, <2>3, Begins, PostedStays
<1>5. CASE Wizard \/ Turns
  <2>1. UNCHANGED <<outbox, worker, call>>
    BY <1>5 DEF Wizard, Turns, Turn, GuiRest, pipes
  <2> QED
    BY <1>2, <1>3, <2>1, Less, PostedStays
<1>6. CASE Full
  <2>1. PICK o \in Outputs, j \in IF Busy THEN {None} ELSE New :
          StartWorker([win EXCEPT !.page = "processing"], call, "cover", j, o, Shows(o))
    BY <1>6 DEF Full, Begin
  <2>2. UNCHANGED outbox
    BY <1>6 DEF Full, GuiRest, pipes
  <2> QED
    BY <1>1, <1>2, <2>1, <2>2, StartOwn
<1>7. CASE GuiReturns
  <2> DEFINE w == [win EXCEPT !.gui = "loop", !.then = "refresh"]
             c == [call EXCEPT !["gui"] = NoCall]
  <2>1. PICK ok \in BOOLEAN, j \in Jobs \cup {None} :
          /\ Returns("gui", ok, j)
          /\ \/ win.then = "preview" /\ Begin(w, c, Inside)
             \/ win.then = "stage" /\ ok /\ StartWorker(w, c, "stage", None, Inside, "none")
             \/ win.then = "offer" /\ j # None /\ StartWorker([w EXCEPT !.page = "processing"], c, "resume", j, Inside, Shows(target[j]))
             \/ win.then = "project" /\ ok /\ win' = [w EXCEPT !.screen = "wizard", !.page = "choose"] /\ call' = c /\ UNCHANGED worker
             \/ ~(win.then = "preview" \/ (win.then = "project" /\ ok)) /\ win' = w /\ call' = c /\ UNCHANGED worker
    BY <1>7 DEF GuiReturns
  <2>2. \A d \in Engines : Lines(outbox'[d]) \subseteq Lines(outbox[d])
    BY <2>1, ReturnsOwn DEF Threads
  <2>3. c \in [Threads -> Call] /\ c["worker"] = call["worker"] /\ c["gui"] = NoCall /\ "gui" \in Threads
    BY <1>1, Quiet DEF Threads
  <2> HIDE DEF w, c
  <2>4. CASE \E v, op, i, out, shows : StartWorker(v, c, op, i, out, shows)
    BY <1>2, <2>2, <2>3, <2>4, StartOwn
  <2>5. CASE call' = c /\ UNCHANGED worker
    <3>1. \A t \in Threads : call'[t] = call[t] \/ call'[t] = NoCall
      BY <2>3, <2>5 DEF Threads
    <3> QED
      BY <1>2, <1>3, <2>2, <2>5, <3>1, Less, PostedStays
  <2>6. Begin(w, c, Inside) => \E v, op, i, out, shows : StartWorker(v, c, op, i, out, shows)
    BY DEF Begin
  <2> QED
    BY <2>1, <2>4, <2>5, <2>6
<1> QED
  BY <1>4, <1>5, <1>6, <1>7

\* Stopping the engine, and the end of the window.
LEMMA StopOwn ==
  ASSUME Counted, IInv, KeepsSettled, Cancel \/ Close \/ StopEnds \/ AppDies
  PROVE  Own' /\ TwoIds' /\ PostedKnown'
<1>1. /\ Frame /\ call \in [Threads -> Call] /\ engine \in [Engines -> Engine] /\ inbox \in [Engines -> Seq(Request)]
      /\ WindowKnown /\ proc \in Engines \cup {None} /\ Lines(<<>>) = {}
  BY LinesAre, EmptySeq DEF IInv, Known, Frame, WindowTypes, PipeTypes
<1>2. ASSUME NEW es \in [Engines -> Engine], \A d \in Engines : es[d] = engine[d] \/ es[d] = Down,
             \A d \in Engines : inbox'[d] = inbox[d] \/ inbox'[d] = <<>>,
             Exit(es) \/ (engine' = es /\ UNCHANGED <<call, worker, outbox>>)
      PROVE  Own' /\ TwoIds' /\ PostedKnown'
  <2>1. \A d \in Engines : Lines(inbox'[d]) \subseteq Lines(inbox[d])
    BY <1>1, <1>2
  <2>2. CASE Exit(es)
    <3>1. /\ engine' = [e \in Engines |-> IF es[e].up THEN [es[e] EXCEPT !.open = FALSE, !.heard = FALSE] ELSE Down]
          /\ outbox' = [e \in Engines |-> <<>>] /\ call' = [t \in Threads |-> NoCall] /\ worker' = NoWorker
      BY <2>2 DEF Exit
    <3>2. ASSUME NEW d \in Engines
          PROVE  ~engine'[d].heard /\ (engine'[d].at = "idle" \/ (engine[d].at # "idle" /\ engine'[d].req = engine[d].req))
      <4>1. es[d] \in Engine /\ (es[d] = engine[d] \/ es[d] = Down)
        BY <1>2
      <4>2. engine'[d] = IF es[d].up THEN [es[d] EXCEPT !.open = FALSE, !.heard = FALSE] ELSE Down
        BY <3>1
      <4>3. /\ [es[d] EXCEPT !.open = FALSE, !.heard = FALSE].at = es[d].at /\ [es[d] EXCEPT !.open = FALSE, !.heard = FALSE].req = es[d].req
            /\ ~[es[d] EXCEPT !.open = FALSE, !.heard = FALSE].heard
        BY <4>1 DEF Engine
      <4> QED
        BY <4>1, <4>2, <4>3, Quiet
    <3>3. \A d \in Engines : Lines(outbox'[d]) \subseteq Lines(outbox[d])
      BY <1>1, <3>1
    <3>4. Own' /\ TwoIds'
      BY <2>1, <3>1, <3>2, <3>3, Less
    <3>5. PostedKnown'
      BY <3>1, Quiet DEF PostedKnown
    <3> QED
      BY <3>4, <3>5
  <2>3. CASE engine' = es /\ UNCHANGED <<call, worker, outbox>>
    <3>1. ASSUME NEW d \in Engines
          PROVE  /\ engine'[d].heard => engine[d].heard
                 /\ engine'[d].at = "idle" \/ (engine[d].at # "idle" /\ engine'[d].req = engine[d].req)
      BY <1>2, <2>3, Quiet
    <3> QED
      BY <2>1, <2>3, <3>1, Less, PostedStays
  <2> QED
    BY <1>2, <2>2, <2>3
<1>3. CASE Cancel \/ Close
  <2>1. PICK then \in {"cancel", "close"} : Stop(then)
    BY <1>3 DEF Cancel, Close
  <2>2. UNCHANGED inbox
    BY <1>3 DEF Cancel, Close
  <2>3. CASE proc = None \/ ~engine[proc].up
    <3>1. Exit(engine) \/ (engine' = engine /\ UNCHANGED <<call, worker, outbox>>)
      BY <2>1, <2>3 DEF Stop, Stopped
    <3> QED
      BY <1>1, <1>2, <2>2, <3>1
  <2>4. CASE proc # None /\ engine[proc].up
    <3>1. engine' = [engine EXCEPT ![proc].open = FALSE] /\ UNCHANGED <<call, worker, outbox>> /\ proc \in Engines
      BY <1>1, <2>1, <2>4 DEF Stop
    <3>2. \A d \in Engines : /\ engine'[d].heard = engine[d].heard
                             /\ engine'[d].at = engine[d].at /\ engine'[d].req = engine[d].req
      BY <1>1, <3>1 DEF Engine
    <3>3. \A d \in Engines : engine'[d].at = "idle" \/ (engine[d].at # "idle" /\ engine'[d].req = engine[d].req)
      BY <3>2
    <3> QED
      BY <2>2, <3>1, <3>2, <3>3, Less, PostedStays
  <2> QED
    BY <2>3, <2>4
<1>4. CASE StopEnds
  <2>1. Stopped(win.then, [engine EXCEPT ![win.stopping] = Down], proc) /\ win.stopping \in Engines
        /\ inbox' = [inbox EXCEPT ![win.stopping] = <<>>]
    BY <1>1, <1>4 DEF StopEnds, WindowKnown
  <2>2. PICK es : es = [engine EXCEPT ![win.stopping] = Down]
    OBVIOUS
  <2>3. es \in [Engines -> Engine] /\ \A d \in Engines : es[d] = engine[d] \/ es[d] = Down
    BY <1>1, <2>1, <2>2, Quiet
  <2>4. \A d \in Engines : inbox'[d] = inbox[d] \/ inbox'[d] = <<>>
    BY <1>1, <2>1
  <2>5. Exit(es) \/ (engine' = es /\ UNCHANGED <<call, worker, outbox>>)
    BY <2>1, <2>2 DEF Stopped
  <2> QED
    BY <1>2, <2>3, <2>4, <2>5
<1>5. CASE AppDies
  BY <1>1, <1>2, <1>5 DEF AppDies
<1> QED
  BY <1>3, <1>4, <1>5

\* The inductive invariant holds at first and after every step.
LEMMA InvariantStep ==
  ASSUME Counted, IInv, [Next]_vars
  PROVE  IInv'
<1>1. Known' /\ KeepsSettled
  BY KnownStep, SettledStays DEF IInv
<1>2. CASE UNCHANGED vars
  <2>1. UNCHANGED <<engine, inbox, outbox, call, worker>>
    BY <1>2 DEF vars, pipes
  <2>2. \A d \in Engines : engine'[d].at = "idle" \/ (engine[d].at # "idle" /\ engine'[d].req = engine[d].req)
    BY <2>1
  <2> QED
    BY <1>1, <2>1, <2>2, Less, PostedStays DEF IInv
<1>3. CASE Next
  <2>1. Own' /\ TwoIds' /\ PostedKnown'
    BY <1>1, <1>3, EnginesOwn, ClientOwn, WorkerOwn, GuiOwn, StopOwn DEF Next, WindowStep
  <2> QED
    BY <1>1, <2>1 DEF IInv
<1> QED
  BY <1>2, <1>3

\* The inductive invariant holds at the start.
LEMMA InvariantFirst ==
  ASSUME Counted, Init
  PROVE  IInv
<1>1. Known /\ NoCall.at = "none" /\ NoWorker.posted = <<>>
  BY KnownFirst, Quiet
<1>2. \A t \in Threads : call[t].at = "none"
  BY <1>1 DEF Init
<1>3. Own /\ TwoIds
  BY <1>2 DEF Own, OwnAnswers, Speaks, TwoIds, Threads
<1>4. PostedKnown
  <2>1. <<"succeeded", "finished">> # <<>>
    OBVIOUS
  <2> QED
    BY <1>1, <2>1 DEF Init, PostedKnown
<1> QED
  BY <1>1, <1>3, <1>4 DEF IInv

\* Only the worker's own call posts anything, and the page of a result is
\* turned to by what was posted.
LEMMA OnlyPosts ==
  ASSUME Counted, IInv, Next
  PROVE  /\ worker.posted = <<>> /\ worker'.posted # <<>> => WorkerReturns
         /\ win'.page \in {"recommend", "result"} /\ win'.page # win.page =>
              TakePosted /\ Head(worker.posted) = "succeeded" /\ worker.shows # "none"
<1>1. win \in Window /\ worker \in Worker /\ CallsKnown
  BY DEF IInv, Known, Frame, WindowTypes
<1>2. NoWorker.posted = <<>> /\ Shut.page = "choose" /\ Shut \in Window
  BY Quiet DEF Shut
<1>3. CASE WorkerReturns
  BY <1>3 DEF WorkerReturns, WindowRest
<1>4. CASE TakePosted
  <2>1. worker.posted # <<>>
    BY <1>4 DEF TakePosted
  <2>2. win'.page \in {"recommend", "result"} /\ win'.page # win.page => Head(worker.posted) = "succeeded" /\ worker.shows # "none"
    BY <1>1, <1>4 DEF TakePosted, Window
  <2> QED
    BY <1>4, <2>1, <2>2
<1>5. CASE UNCHANGED <<worker, win>>
  BY <1>5
<1>6. ASSUME NEW w \in Window, w.page \notin {"recommend", "result"} \/ w.page = win.page, NEW c, NEW op, NEW j, NEW out, NEW shows,
             StartWorker(w, c, op, j, out, shows)
      PROVE  /\ worker.posted = <<>> => worker'.posted = <<>>
             /\ win'.page \in {"recommend", "result"} => win'.page = win.page
  <2>1. win'.page = w.page
    BY <1>6 DEF StartWorker, Window
  <2>2. UNCHANGED worker \/ worker'.posted = <<>>
    BY <1>6 DEF StartWorker, NoWorker
  <2> QED
    BY <1>6, <2>1, <2>2
<1>7. CASE Visit \/ Settings \/ CheckUpdate \/ OpenProject \/ Preview \/ Wizard \/ Turns \/ Open
  <2>1. UNCHANGED worker
    BY <1>7 DEF Visit, Settings, CheckUpdate, OpenProject, Preview, Wizard, Turns, Turn, Open, Asks
  <2>2. CASE Turns
    <3>1. win'.page \in {"preview", "choose"}
      BY <1>1, <2>2 DEF Turns, Turn, Window
    <3> QED
      BY <2>1, <3>1
  <2>3. CASE Visit \/ Settings \/ CheckUpdate \/ OpenProject \/ Preview \/ Wizard
    <3>1. win'.page = win.page
      BY <1>1, <2>3 DEF Visit, Settings, CheckUpdate, OpenProject, Preview, Wizard, Asks, Window
    <3> QED
      BY <2>1, <3>1
  <2>4. CASE Open
    BY <1>2, <2>1, <2>4 DEF Open, Shut
  <2> QED
    BY <1>7, <2>2, <2>3, <2>4
<1>8. CASE Full
  <2>1. PICK o \in Outputs, j \in IF Busy THEN {None} ELSE New :
          StartWorker([win EXCEPT !.page = "processing"], call, "cover", j, o, Shows(o))
    BY <1>8 DEF Full, Begin
  <2>2. [win EXCEPT !.page = "processing"] \in Window /\ [win EXCEPT !.page = "processing"].page = "processing"
    BY <1>1 DEF Window, Page
  <2> QED
    BY <1>6, <2>1, <2>2
<1>9. CASE GuiReturns
  <2> DEFINE w == [win EXCEPT !.gui = "loop", !.then = "refresh"]
             v == [w EXCEPT !.page = "processing"]
             c == [call EXCEPT !["gui"] = NoCall]
  <2>1. PICK ok \in BOOLEAN, j \in Jobs \cup {None} :
          \/ win.then = "preview" /\ Begin(w, c, Inside)
          \/ win.then = "stage" /\ ok /\ StartWorker(w, c, "stage", None, Inside, "none")
          \/ win.then = "offer" /\ j # None /\ StartWorker(v, c, "resume", j, Inside, Shows(target[j]))
          \/ win.then = "project" /\ ok /\ win' = [w EXCEPT !.screen = "wizard", !.page = "choose"] /\ call' = c /\ UNCHANGED worker
          \/ ~(win.then = "preview" \/ (win.then = "project" /\ ok)) /\ win' = w /\ call' = c /\ UNCHANGED worker
    BY <1>9 DEF GuiReturns
  <2>2. w \in Window /\ w.page = win.page /\ [w EXCEPT !.screen = "wizard", !.page = "choose"].page = "choose"
    BY <1>1 DEF Window
  <2>3. v \in Window /\ v.page = "processing"
    BY <2>2 DEF Window, Page
  <2>4. Begin(w, c, Inside) => \E i : StartWorker(v, c, "cover", i, Inside, Shows(Inside))
    BY DEF Begin
  <2> HIDE DEF w, v, c
  <2>5. CASE \E i : StartWorker(v, c, "cover", i, Inside, Shows(Inside))
    BY <1>6, <2>3, <2>5
  <2>6. CASE StartWorker(w, c, "stage", None, Inside, "none")
    BY <1>6, <2>2, <2>6
  <2>7. CASE StartWorker(v, c, "resume", j, Inside, Shows(target[j]))
    BY <1>6, <2>3, <2>7
  <2>8. CASE win' = [w EXCEPT !.screen = "wizard", !.page = "choose"] /\ UNCHANGED worker
    BY <2>2, <2>8
  <2>9. CASE win' = w /\ UNCHANGED worker
    BY <2>2, <2>9
  <2> QED
    BY <2>1, <2>4, <2>5, <2>6, <2>7, <2>8, <2>9
<1>10. CASE Cancel \/ Close \/ StopEnds \/ AppDies
  <2>1. UNCHANGED worker \/ worker' = NoWorker
    BY <1>10 DEF Cancel, Close, StopEnds, AppDies, Stop, Stopped, Exit
  <2>2. win' = Shut \/ win'.page = "choose" \/ win'.page = win.page
    <3>1. \/ win' = Shut
          \/ win' = [win EXCEPT !.gui = "loop", !.then = "refresh", !.page = "choose", !.cancelled = TRUE, !.stopping = None]
          \/ \E then \in {"cancel", "close"} :
               win' = [win EXCEPT !.gui = "stop", !.then = then, !.stopping = proc, !.cancelled = (then = "cancel" \/ @)]
      BY <1>10 DEF Cancel, Close, StopEnds, AppDies, Stop, Stopped, Exit
    <3> QED
      BY <1>1, <3>1 DEF Window
  <2> QED
    BY <1>2, <2>1, <2>2
<1>11. CASE \E e \in Engines : EngineStep(e) \/ CoverRefused(e) \/ RunFails(e) \/ EngineDies(e) \/ Noise(e)
  <2>1. PICK e \in Engines : EngineStep(e) \/ CoverRefused(e) \/ RunFails(e) \/ EngineDies(e) \/ Noise(e)
    BY <1>11
  <2>2. EngineStep(e) => UNCHANGED <<worker, win>>
    BY DEF EngineStep, Serve, Stage, CoverRequest, LoadRequest, Execute, Run, Work, Copying, Publish, Complete, Finish,
       Failing, Exits, EngineRest
  <2>3. ~EngineStep(e) => UNCHANGED <<worker, win>>
    BY <2>1 DEF CoverRefused, RunFails, EngineDies, Noise, EngineRest
  <2> QED
    BY <1>5, <2>2, <2>3
<1>12. CASE \E t \in Threads : ClientStep(t)
  <2>1. UNCHANGED <<worker, win>>
    BY <1>12 DEF ClientStep, CallStart, CallWrite, WindowRest
  <2> QED
    BY <1>5, <2>1
<1> QED
  BY <1>3, <1>4, <1>7, <1>8, <1>9, <1>10, <1>11, <1>12 DEF Next, WindowStep

\* A worker's call succeeds with the answer to its own request only, whatever
\* else is in the pipe: EngineClient.call compares the id, and an id is used once.
THEOREM OnlyOwnAnswers ==
  ASSUME Counted
  PROVE  Spec => AnswersMatch
<1>1. Init => IInv
  BY InvariantFirst
<1>2. IInv /\ [Next]_vars => IInv'
  BY InvariantStep
<1>3. IInv /\ [Next]_vars =>
        [worker.posted = <<>> /\ worker'.posted # <<>> /\ Head(worker'.posted) = "succeeded" =>
           worker'.result = call["worker"].req.job]_vars
  <2> SUFFICES ASSUME IInv, Next, worker.posted = <<>>, worker'.posted # <<>>, Head(worker'.posted) = "succeeded"
               PROVE  worker'.result = call["worker"].req.job
    OBVIOUS
  <2>1. WorkerReturns /\ worker \in Worker /\ CallsKnown /\ Frame
    BY OnlyPosts DEF IInv, Known, Frame, WindowTypes
  <2>2. PICK ok \in BOOLEAN, j \in Jobs \cup {None} :
          /\ Returns("worker", ok, j)
          /\ worker' = [worker EXCEPT !.result = j, !.posted = <<IF ok THEN "succeeded" ELSE "failed", "finished">>]
    BY <2>1 DEF WorkerReturns
  <2>3. worker'.result = j /\ worker'.posted = <<IF ok THEN "succeeded" ELSE "failed", "finished">>
    BY <2>1, <2>2 DEF Worker
  <2>4. ok
    BY <2>3
  <2>5. PICK l : l.job = j /\ Answers("worker", l)
    BY <2>2, <2>4, ReturnsOwn DEF Threads
  <2>6. call["worker"].req.op # "offer"
    BY <2>1, <2>2, Returning DEF CallsKnown, Threads
  <2> QED
    BY <2>3, <2>5, <2>6 DEF Answers
<1> QED
  BY <1>1, <1>2, <1>3, PTL DEF Spec, AnswersMatch

\* The result page is turned to for a cover that is complete on disk: the engine
\* answers a cover after its snapshot is saved (svc_app/screens/wizard.py).
THEOREM ShownResultsAreTrue ==
  ASSUME Counted
  PROVE  Spec => ResultShownIsTrue
<1>1. Init => IInv
  BY InvariantFirst
<1>2. IInv /\ [Next]_vars => IInv'
  BY InvariantStep
<1>3. IInv /\ [Next]_vars =>
        [win'.page \in {"recommend", "result"} /\ win'.page # win.page =>
           worker.result \in shared \/ (worker.result \in Jobs /\ snap[worker.result] = "completed")]_vars
  <2> SUFFICES ASSUME IInv, Next, win'.page \in {"recommend", "result"}, win'.page # win.page
               PROVE  worker.result \in shared \/ (worker.result \in Jobs /\ snap[worker.result] = "completed")
    OBVIOUS
  <2>1. TakePosted /\ Head(worker.posted) = "succeeded" /\ worker.shows # "none" /\ worker \in Worker /\ PostedKnown
    BY OnlyPosts DEF IInv, Known, Frame, WindowTypes
  <2>2. worker.posted = <<"succeeded", "finished">>
    <3>1. worker.posted \in {<<"finished">>, <<"succeeded", "finished">>, <<"failed", "finished">>}
      BY <2>1 DEF TakePosted, Worker
    <3>2. Head(<<"finished">>) = "finished" /\ Head(<<"failed", "finished">>) = "failed"
      OBVIOUS
    <3> QED
      BY <2>1, <3>1, <3>2
  <2>3. Settled(worker.result)
    BY <2>1, <2>2 DEF PostedKnown
  <2> QED
    BY <2>3 DEF Settled
<1> QED
  BY <1>1, <1>2, <1>3, PTL DEF Spec, ResultShownIsTrue

==============================================================================
