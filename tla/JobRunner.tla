------------------------------ MODULE JobRunner ------------------------------
(***************************************************************************)
(* JobRunner (svc_engine/jobs/runner.py) over its three durable stores:    *)
(* the step cache, the recovery snapshots (jobs/recovery.py) and the       *)
(* SQLite history (history/store.py).  A worker is an engine process; it   *)
(* runs one job at a time, or jobs.cleanup.  A process may die, an         *)
(* operation may raise, a disk may fill up, between any two effects that   *)
(* another process or a restart can observe.                               *)
(*                                                                         *)
(* A plan is what one call of run is given: the steps of the job in        *)
(* topological order, each with its cache key, and the plan signature.     *)
(* The same job can come back with another plan, because its parameters    *)
(* and input files are read again when it is resumed.                      *)
(***************************************************************************)
EXTENDS StepCache

CONSTANTS
  Jobs,
  N,            \* steps of a job, in topological order 1..N
  Needs,        \* Needs[i]: the steps whose outputs step i is given
  Sigs,         \* plan signatures
  Plans         \* Plans[j]: the plans job j may be run with

Steps == 1..N
Plan  == [keys : [Steps -> Keys], sig : Sigs]

ASSUME StepsAssumption == N \in Nat \ {0} /\ Needs \in [Steps -> SUBSET Steps]
ASSUME OrderAssumption == \A i \in Steps : \A d \in Needs[i] : d < i
ASSUME PlansAssumption == Plans \in [Jobs -> (SUBSET Plan) \ {{}}] /\ "none" \notin Sigs
ASSUME JobsAssumption == Jobs # {}

VARIABLES
  snap,         \* snap[j]: the recovery snapshot on disk
  hist,         \* hist[j]: the status column of the history row
  workspace,    \* workspace[j]: the scratch directory of j exists
  pc, job, plan, at, mem, token, kind, seen, resumed,  \* of each process
  asked         \* asked[w]: cancelled while a step was still to be finished

runVars  == <<pc, job, plan, at, mem, token, kind, seen, resumed, asked>>
diskVars == <<snap, hist, workspace>>
vars     == <<cacheVars, diskVars, runVars>>

-----------------------------------------------------------------------------
(* Snapshots *)

JobState    == {"pending", "running", "completed", "failed", "cancelled"}
StepState   == JobState \cup {"cached"}
Done        == {"completed", "cached"}
Recoverable == {"pending", "running", "failed"}

StepSnapshot     == [status : StepState, key : Keys \cup {NoKey}]
RecoverySnapshot == [status : JobState \cup {"absent"}, sig : Sigs \cup {NoKey},
                     steps : [Steps -> StepSnapshot]]

PendingSteps == [i \in Steps |-> [status |-> "pending", key |-> NoKey]]
NoSnapshot   == [status |-> "absent", sig |-> NoKey, steps |-> PendingSteps]
Create(sig)  == [status |-> "pending", sig |-> sig, steps |-> PendingSteps]

\* _mark_terminal: a step that was running shares the fate of the job.
MarkTerminal(s, status) ==
  [s EXCEPT !.status = status,
            !.steps  = [i \in Steps |->
                          IF @[i].status = "running" THEN [@[i] EXCEPT !.status = status]
                                                     ELSE @[i]]]

WithStep(s, i, status, k) == [s EXCEPT !.steps[i] = [status |-> status, key |-> k]]

HistState == JobState \cup {"absent"}
PC == {"idle", "prepare", "discover", "sweep", "begin", "beginHistory", "step", "looked",
       "announce", "execute", "check", "publish", "progress", "complete",
       "completeHistory", "quota", "evict", "failing", "failHistory", "unwind",
       "cleanSweep", "cleanQuota", "cleanEvict", "return"}

TypeOK ==
  /\ CacheTypeOK
  /\ snap      \in [Jobs -> RecoverySnapshot]
  /\ hist      \in [Jobs -> HistState]
  /\ workspace \in [Jobs -> BOOLEAN]
  /\ pc        \in [Workers -> PC]
  /\ job       \in [Workers -> Jobs]
  /\ plan      \in [Workers -> Plan]
  /\ at        \in [Workers -> 1..(N + 1)]
  /\ mem       \in [Workers -> RecoverySnapshot]
  /\ token     \in [Workers -> BOOLEAN]
  /\ kind      \in [Workers -> {"failed", "cancelled"}]
  /\ seen      \in [Workers -> SUBSET Jobs]
  /\ resumed   \in [Workers -> BOOLEAN]
  /\ asked     \in [Workers -> BOOLEAN]

\* What an idle process holds does not matter; it is some job and some plan.
AnyJob  == CHOOSE j \in Jobs : TRUE
AnyPlan == CHOOSE p \in Plans[AnyJob] : TRUE

Init ==
  /\ CacheInit
  /\ snap      = [j \in Jobs |-> NoSnapshot]
  /\ hist      = [j \in Jobs |-> "absent"]
  /\ workspace = [j \in Jobs |-> FALSE]
  /\ pc        = [w \in Workers |-> "idle"]
  /\ job       = [w \in Workers |-> AnyJob]
  /\ plan      = [w \in Workers |-> AnyPlan]
  /\ at        = [w \in Workers |-> 1]
  /\ mem       = [w \in Workers |-> NoSnapshot]
  /\ token     = [w \in Workers |-> FALSE]
  /\ kind      = [w \in Workers |-> "failed"]
  /\ seen      = [w \in Workers |-> {}]
  /\ resumed   = [w \in Workers |-> FALSE]
  /\ asked     = [w \in Workers |-> FALSE]

-----------------------------------------------------------------------------
(* One process, one effect *)

At(w, label)  == pc[w] = label
Jump(w, label) == pc' = [pc EXCEPT ![w] = label]
Key(w) == plan[w].keys[at[w]]
Keep(w) == UNCHANGED <<job, plan, token, seen, resumed, asked>>

\* recovery.save of the in-memory snapshot m, which the caller has already
\* changed.  It may raise, before or after the file was replaced.
Save(w, m, next) ==
  /\ mem'  = [mem EXCEPT ![w] = m]
  /\ snap' = [snap EXCEPT ![job[w]] = m]
  /\ Jump(w, next)
  /\ UNCHANGED <<hist, workspace, kind, events>>

SaveRaises(w, m, handler) ==
  /\ Inject
  /\ mem'  = [mem EXCEPT ![w] = m]
  /\ snap' \in {snap, [snap EXCEPT ![job[w]] = m]}
  /\ kind' = [kind EXCEPT ![w] = "failed"]
  /\ Jump(w, handler)
  /\ UNCHANGED <<hist, workspace>>

\* history.record of a status; a locked or full database raises.
Record(w, status, next) ==
  /\ hist' = [hist EXCEPT ![job[w]] = status]
  /\ Jump(w, next)
  /\ UNCHANGED <<kind, events>>

RecordRaises(w, handler) ==
  /\ Inject
  /\ kind' = [kind EXCEPT ![w] = "failed"]
  /\ Jump(w, handler)
  /\ UNCHANGED hist

\* The call is over: nothing of its local state outlives it.
Leave(w) ==
  /\ Jump(w, "idle")
  /\ at'      = [at EXCEPT ![w] = 1]
  /\ mem'     = [mem EXCEPT ![w] = NoSnapshot]
  /\ token'   = [token EXCEPT ![w] = FALSE]
  /\ kind'    = [kind EXCEPT ![w] = "failed"]
  /\ seen'    = [seen EXCEPT ![w] = {}]
  /\ resumed' = [resumed EXCEPT ![w] = FALSE]
  /\ asked'   = [asked EXCEPT ![w] = FALSE]
  /\ UNCHANGED <<job, plan>>

\* What a step that ends a cache call, or makes none, leaves alone.
cacheRest == <<entry, temp, litter, quotaVars>>

-----------------------------------------------------------------------------
(* run, up to its first step *)

\* Inside the try statement of run, or on the way to it.
Busy == PC \ {"idle", "cleanSweep", "cleanQuota", "cleanEvict", "unwind", "return"}

\* Two processes never run the same job: the engine answers one request at a
\* time and the window starts one engine.
Free(j) == \A u \in Workers : pc[u] \in Busy \cup {"unwind"} => job[u] # j

\* Mutant: only an interrupted job is accepted again, not a failed one.
AcceptsInterrupted(j, p) ==
  snap[j].status = "absent" \/ (snap[j].status = "running" /\ snap[j].sig = p.sig)

\* A snapshot with another signature makes run raise before it changes anything.
Accepts(j, p) == snap[j].status = "absent" \/ snap[j].sig = p.sig

Submit(w, j, p) ==
  LET m == IF snap[j].status = "absent" THEN Create(p.sig) ELSE snap[j] IN
  /\ At(w, "idle") /\ Free(j) /\ Accepts(j, p)
  /\ job'     = [job EXCEPT ![w] = j]
  /\ plan'    = [plan EXCEPT ![w] = p]
  /\ at'      = [at EXCEPT ![w] = 1]
  /\ mem'     = [mem EXCEPT ![w] = m]
  /\ snap'    = [snap EXCEPT ![j] = m]
  /\ token'   = [token EXCEPT ![w] = FALSE]
  /\ asked'   = [asked EXCEPT ![w] = FALSE]
  /\ resumed' = [resumed EXCEPT ![w] = snap[j].status \in Recoverable]
  /\ Jump(w, "prepare")
  /\ UNCHANGED <<hist, workspace, kind, seen, cacheVars>>

\* recovery.create raises; the file may be there all the same.
SubmitRaises(w, j, p) ==
  /\ At(w, "idle") /\ Free(j) /\ snap[j].status = "absent"
  /\ Inject
  /\ snap' \in {snap, [snap EXCEPT ![j] = Create(p.sig)]}
  /\ UNCHANGED <<hist, workspace, runVars, stage, target, cacheRest>>

Prepare(w) ==
  /\ At(w, "prepare")
  /\ workspace' = [workspace EXCEPT ![job[w]] = TRUE]
  /\ Jump(w, "discover")
  /\ Keep(w) /\ UNCHANGED <<snap, hist, at, mem, kind, cacheVars>>

\* The old workspace is removed as far as it goes; making the new one raises.
PrepareRaises(w) ==
  /\ At(w, "prepare")
  /\ Inject
  /\ workspace' \in {workspace, [workspace EXCEPT ![job[w]] = FALSE]}
  /\ Jump(w, "return")
  /\ Keep(w) /\ UNCHANGED <<snap, hist, at, mem, kind, stage, target, cacheRest>>

RecoverableJobs == {j \in Jobs : snap[j].status \in Recoverable}

Discover(w) ==
  /\ At(w, "discover")
  /\ seen' = [seen EXCEPT ![w] = RecoverableJobs \cup {job[w]}]
  /\ Jump(w, "sweep")
  /\ UNCHANGED <<diskVars, job, plan, at, mem, token, kind, resumed, asked, cacheVars>>

\* _cleanup_orphan_workspaces, then remove_abandoned_temporaries.
SweepBoth(w) ==
  /\ workspace' = [j \in Jobs |-> workspace[j] /\ j \in seen[w]]
  /\ Sweep(w)

SweepStart(w) ==
  /\ At(w, "sweep")
  /\ SweepBoth(w)
  /\ Jump(w, "begin")
  /\ Keep(w) /\ UNCHANGED <<snap, hist, at, mem, kind>>

\* A workspace that cannot be removed makes run raise: no handler is active yet.
SweepRaises(w) ==
  /\ pc[w] \in {"sweep", "cleanSweep"}
  /\ Inject
  /\ Jump(w, "return")
  /\ Keep(w) /\ UNCHANGED <<diskVars, at, mem, kind, stage, target, cacheRest>>

Running(w) == [mem[w] EXCEPT !.status = "running"]

Begin(w) ==
  /\ At(w, "begin")
  /\ Save(w, Running(w), "beginHistory") \/ SaveRaises(w, Running(w), "return")
  /\ Keep(w) /\ UNCHANGED <<at, stage, target, cacheRest>>

BeginHistory(w) ==
  /\ At(w, "beginHistory")
  /\ Record(w, "running", "step") \/ RecordRaises(w, "return")
  /\ Keep(w) /\ UNCHANGED <<snap, workspace, at, mem, stage, target, cacheRest>>

-----------------------------------------------------------------------------
(* The loop over the steps *)

Raise(w, k) ==
  /\ kind' = [kind EXCEPT ![w] = k]
  /\ Jump(w, "failing")

\* token.raise_if_cancelled() at the head of the loop, before the lookup.
StepStart(w) ==
  /\ At(w, "step") /\ ~token[w]
  /\ Lookup(w, Key(w))
  /\ Jump(w, "looked")
  /\ Keep(w) /\ UNCHANGED <<diskVars, at, mem, kind>>

Cancelled(w) ==
  /\ pc[w] \in {"step", "execute", "check"} /\ token[w]
  /\ Raise(w, "cancelled")
  /\ EndCall(w)
  /\ Keep(w) /\ UNCHANGED <<diskVars, at, mem, events, cacheRest>>

TouchHit(w) ==
  /\ At(w, "looked")
  /\ Touch(w) \/ TouchFails(w)
  /\ Keep(w) /\ UNCHANGED <<diskVars, at, mem, kind, pc>>

\* Mutant: a hit leaves the key of the snapshot as it was.
StepHitKeepsKey(w) ==
  LET m == WithStep(mem[w], at[w], "cached", mem[w].steps[at[w]].key) IN
  /\ At(w, "looked") /\ Acknowledge(w, {"hit"})
  /\ Save(w, m, "progress") \/ SaveRaises(w, m, "failing")
  /\ Keep(w) /\ UNCHANGED <<at, cacheRest>>

StepHit(w) ==
  LET m == WithStep(mem[w], at[w], "cached", Key(w)) IN
  /\ At(w, "looked") /\ Acknowledge(w, {"hit"})
  /\ Save(w, m, "progress") \/ SaveRaises(w, m, "failing")
  /\ Keep(w) /\ UNCHANGED <<at, cacheRest>>

\* Mutant: the step is marked done before its result is published.
StepMissMarksDone(w) ==
  LET m == WithStep(mem[w], at[w], "completed", Key(w)) IN
  /\ At(w, "looked") /\ stage[w] = "miss"
  /\ Save(w, m, "announce") \/ SaveRaises(w, m, "failing")
  /\ Keep(w) /\ UNCHANGED <<at, stage, target, cacheRest>>

StepMiss(w) ==
  LET m == WithStep(mem[w], at[w], "running", Key(w)) IN
  /\ At(w, "looked") /\ stage[w] = "miss"
  /\ Save(w, m, "announce") \/ SaveRaises(w, m, "failing")
  /\ Keep(w) /\ UNCHANGED <<at, stage, target, cacheRest>>

Announce(w) ==
  /\ At(w, "announce")
  /\ Record(w, "running", "execute") \/ RecordRaises(w, "failing")
  /\ Keep(w) /\ UNCHANGED <<snap, workspace, at, mem, stage, target, cacheRest>>

\* step.action(context) reads the outputs of the steps it needs; it returns
\* its own outputs, or raises.
DependenciesThere(w) == \A d \in Needs[at[w]] : "files" \in entry[plan[w].keys[d]]

Execute(w) ==
  /\ At(w, "execute")
  /\ \/ DependenciesThere(w) /\ Jump(w, "check") /\ UNCHANGED <<kind, events>>
     \/ ~DependenciesThere(w) /\ Raise(w, "failed") /\ UNCHANGED events
     \/ Inject /\ Raise(w, "failed")
  /\ Keep(w) /\ UNCHANGED <<diskVars, at, mem, stage, target, cacheRest>>

StartPublish(w) ==
  /\ At(w, "check") /\ ~token[w]
  /\ PublishBegin(w) \/ PublishMkdirFails(w)
  /\ Jump(w, "publish")
  /\ Keep(w) /\ UNCHANGED <<diskVars, at, mem, kind>>

Publishing(w) ==
  /\ At(w, "publish")
  /\ PublishStep(w) \/ PublishFault(w)
  /\ Keep(w) /\ UNCHANGED <<diskVars, at, mem, kind, pc>>

\* Mutant: a failed publication is logged and the job goes on.
CacheRaisesIgnored(w) ==
  /\ pc[w] \in {"looked", "publish"}
  /\ Acknowledge(w, {"error"})
  /\ Jump(w, "progress")
  /\ Keep(w) /\ UNCHANGED <<diskVars, at, mem, kind, events, cacheRest>>

CacheRaises(w) ==
  /\ pc[w] \in {"looked", "publish"}
  /\ Acknowledge(w, {"error"})
  /\ Raise(w, "failed")
  /\ Keep(w) /\ UNCHANGED <<diskVars, at, mem, events, cacheRest>>

StepDone(w) ==
  LET m == WithStep(mem[w], at[w], "completed", Key(w)) IN
  /\ At(w, "publish") /\ Acknowledge(w, {"done"})
  /\ Save(w, m, "progress") \/ SaveRaises(w, m, "failing")
  /\ Keep(w) /\ UNCHANGED <<at, cacheRest>>

Progress(w) ==
  /\ At(w, "progress")
  /\ \/ /\ Record(w, "running", IF at[w] = N THEN "complete" ELSE "step")
        /\ at' = [at EXCEPT ![w] = @ + 1]
     \/ RecordRaises(w, "failing") /\ UNCHANGED at
  /\ Keep(w) /\ UNCHANGED <<snap, workspace, mem, stage, target, cacheRest>>

-----------------------------------------------------------------------------
(* The end of run *)

Completed(w) == [mem[w] EXCEPT !.status = "completed"]

Complete(w) ==
  /\ At(w, "complete")
  /\ Save(w, Completed(w), "completeHistory") \/ SaveRaises(w, Completed(w), "failing")
  /\ Keep(w) /\ UNCHANGED <<at, stage, target, cacheRest>>

CompleteHistory(w) ==
  /\ At(w, "completeHistory")
  /\ Record(w, "completed", "quota") \/ RecordRaises(w, "failing")
  /\ Keep(w) /\ UNCHANGED <<snap, workspace, at, mem, stage, target, cacheRest>>

PlanKeys(w) == {plan[w].keys[i] : i \in Steps}

Quota(w) ==
  /\ At(w, "quota")
  /\ QuotaScan(w, PlanKeys(w))
  /\ Jump(w, "evict")
  /\ Keep(w) /\ UNCHANGED <<diskVars, at, mem, kind>>

\* Mutant: an OSError of the quota reaches the handlers of run.
EvictRaises(w) ==
  /\ pc[w] \in {"evict", "cleanEvict"}
  /\ QuotaStep(w) \/ RemoveLocked(w)
  /\ Jump(w, IF stage'[w] # "idle" THEN pc[w]
             ELSE IF pc[w] = "cleanEvict" THEN "return"
             ELSE IF stage[w] = "remove" THEN "failing" ELSE "unwind")
  /\ Keep(w) /\ UNCHANGED <<diskVars, at, mem, kind>>

\* An OSError of the quota is logged and swallowed.
Evict(w) ==
  /\ pc[w] \in {"evict", "cleanEvict"}
  /\ QuotaStep(w) \/ RemoveLocked(w)
  /\ Jump(w, IF stage'[w] # "idle" THEN pc[w]
             ELSE IF pc[w] = "evict" THEN "unwind" ELSE "return")
  /\ Keep(w) /\ UNCHANGED <<diskVars, at, mem, kind>>

\* The except clauses, and suppress(...) for a full disk.
Fail(w) ==
  LET m == MarkTerminal(mem[w], kind[w]) IN
  /\ At(w, "failing")
  /\ \/ Save(w, m, "failHistory")
     \/ SaveRaises(w, m, "unwind")
  /\ EndCall(w)
  /\ Keep(w) /\ UNCHANGED <<at, cacheRest>>

FailHistory(w) ==
  /\ At(w, "failHistory")
  /\ Record(w, mem[w].status, "unwind") \/ RecordRaises(w, "unwind")
  /\ Keep(w) /\ UNCHANGED <<snap, workspace, at, mem, stage, target, cacheRest>>

\* finally: rmtree(workspace, ignore_errors=True)
Unwind(w) ==
  /\ At(w, "unwind")
  /\ workspace' = [workspace EXCEPT ![job[w]] = FALSE]
  /\ Jump(w, "return")
  /\ Keep(w) /\ UNCHANGED <<snap, hist, at, mem, kind, cacheVars>>

Return(w) == At(w, "return") /\ Leave(w) /\ UNCHANGED <<diskVars, cacheVars>>

-----------------------------------------------------------------------------
(* cleanup, the jobs.cleanup request *)

Cleanup(w) ==
  /\ At(w, "idle")
  /\ Inject
  /\ seen' = [seen EXCEPT ![w] = RecoverableJobs]
  /\ Jump(w, "cleanSweep")
  /\ UNCHANGED <<diskVars, job, plan, at, mem, token, kind, resumed, asked, stage, target, cacheRest>>

CleanupSweep(w) ==
  /\ At(w, "cleanSweep")
  /\ SweepBoth(w)
  /\ Jump(w, "cleanQuota")
  /\ Keep(w) /\ UNCHANGED <<snap, hist, at, mem, kind>>

CleanupQuota(w) ==
  /\ At(w, "cleanQuota")
  /\ QuotaScan(w, {})
  /\ Jump(w, "cleanEvict")
  /\ Keep(w) /\ UNCHANGED <<diskVars, at, mem, kind>>

-----------------------------------------------------------------------------
(* The environment *)

\* A step is still to be checked against the token.
StillChecked(w) == at[w] < N \/ pc[w] \in {"step", "announce", "execute", "check"}

Cancel(w) ==
  /\ pc[w] \in Busy /\ ~token[w]
  /\ Inject
  /\ token' = [token EXCEPT ![w] = TRUE]
  /\ asked' = [asked EXCEPT ![w] = StillChecked(w)]
  /\ UNCHANGED <<diskVars, pc, job, plan, at, mem, kind, seen, resumed, stage, target, cacheRest>>

Crash(w) ==
  /\ ~At(w, "idle")
  /\ CacheCrash(w)
  /\ Leave(w)
  /\ UNCHANGED diskVars

\* What a live process does by itself.
Proceed(w) ==
  \/ Prepare(w) \/ Discover(w) \/ SweepStart(w) \/ Begin(w) \/ BeginHistory(w)
  \/ StepStart(w) \/ Cancelled(w) \/ TouchHit(w) \/ StepHit(w) \/ StepMiss(w)
  \/ Announce(w) \/ Execute(w) \/ StartPublish(w) \/ Publishing(w) \/ CacheRaises(w)
  \/ StepDone(w) \/ Progress(w) \/ Complete(w) \/ CompleteHistory(w)
  \/ Quota(w) \/ Evict(w) \/ Fail(w) \/ FailHistory(w) \/ Unwind(w)
  \/ Return(w) \/ CleanupSweep(w) \/ CleanupQuota(w)

Next ==
  \E w \in Workers :
    \/ Proceed(w) \/ PrepareRaises(w) \/ SweepRaises(w) \/ Cancel(w) \/ Crash(w) \/ Cleanup(w)
    \/ \E j \in Jobs : \E p \in Plans[j] : Submit(w, j, p) \/ SubmitRaises(w, j, p)

Spec == Init /\ [][Next]_vars

-----------------------------------------------------------------------------
(* Properties *)

(***************************************************************************)
(* A snapshot that says the job is complete names one chain of results:    *)
(* every step is done, and the keys are those of a single plan, even when  *)
(* the job was interrupted and resumed with other parameters.              *)
(***************************************************************************)
CompletedCoherent ==
  \A j \in Jobs :
    snap[j].status = "completed" =>
      \E p \in Plans[j] : \A i \in Steps :
        snap[j].steps[i].status \in Done /\ snap[j].steps[i].key = p.keys[i]

(***************************************************************************)
(* A cancellation that arrives while a step is still to be finished is     *)
(* honoured: that run never reaches its end.                               *)
(***************************************************************************)
CancelHonoured ==
  \A w \in Workers :
    asked[w] => pc[w] \notin {"complete", "completeHistory", "quota", "evict"}

(***************************************************************************)
(* A job is recorded as cancelled, and so never offered for recovery,      *)
(* only when its own run was cancelled: no failure ends there.             *)
(***************************************************************************)
CancelledWasAsked ==
  [][\A j \in Jobs :
       snap'[j].status = "cancelled" /\ snap[j].status # "cancelled" =>
         \E w \in Workers : job[w] = j /\ pc[w] = "failing" /\ token[w]]_vars

(***************************************************************************)
(* The history never runs ahead of the snapshot: a final status is         *)
(* recorded only when the snapshot on disk already has it.                 *)
(***************************************************************************)
HistoryFollows ==
  [][\A j \in Jobs :
       hist'[j] # hist[j] /\ hist'[j] # "running" => snap[j].status = hist'[j]]_vars

(***************************************************************************)
(* Once both stores say the job is complete, only a new run of it reopens  *)
(* it; the quota maintenance that follows "must not turn a completed cover *)
(* into a failed job" (run).                                               *)
(***************************************************************************)
CompletedStays ==
  [][\A j \in Jobs :
       snap[j].status = "completed" /\ hist[j] = "completed" /\ snap'[j] # snap[j] =>
         \E w \in Workers : job[w] = j /\ pc[w] = "begin"]_vars

(***************************************************************************)
(* The durable records tell what happened, whatever fails between two of   *)
(* them.                                                                   *)
(***************************************************************************)
RecordsTrue == []CancelHonoured /\ CancelledWasAsked /\ HistoryFollows /\ CompletedStays

(***************************************************************************)
(* Only whole entries appear in the cache and only whole ones are handed   *)
(* to a step ("Immutable entry directories", cache.py), although removals  *)
(* stop half-way and nothing of a publication is sure to be cleaned up.    *)
(***************************************************************************)
CacheKeepsWhole == PublishedWhole /\ NeverConsumePartial

(***************************************************************************)
(* A lone process that gets through its quota leaves the cache within the  *)
(* limit, or holding what the job it has just finished still needs: the    *)
(* running estimate never parts from what is on disk, corrupt entries      *)
(* included (enforce_limit).                                               *)
(***************************************************************************)
QuotaHolds ==
  [][\A w \in Workers :
       stage[w] = "quota" /\ stage'[w] = "idle" /\ events' = events =>
         Cardinality(Present) <= Limit \/ Present \subseteq PlanKeys(w)]_vars

(***************************************************************************)
(* A resumed job does not run again a step it had finished with the same   *)
(* parameters ("if step 6 failed, steps 1-5 do not run again",             *)
(* docs/architecture.md 1.3).                                              *)
(***************************************************************************)
NoRerun ==
  \A w \in Workers :
    pc[w] = "looked" /\ stage[w] = "miss" /\ resumed[w] =>
      ~ (mem[w].steps[at[w]].status \in Done /\ mem[w].steps[at[w]].key = Key(w))


-----------------------------------------------------------------------------
(* What the runner implements *)

LedgerStatus(s) ==
  CASE s = "absent"            -> "new"
    [] s \in Recoverable       -> "open"
    [] s = "completed"         -> "done"
    [] s = "cancelled"         -> "cancelled"

\* The results of the steps a live run has behind it.
Held == {k \in Keys : \E w \in Workers : \E i \in Steps :
           pc[w] \in Busy \cup {"unwind"} /\ i < at[w] /\ k = plan[w].keys[i]}

Ledger == INSTANCE JobLedger WITH
  PlanKeySets <- [j \in Jobs |-> {{p.keys[i] : i \in Steps} : p \in Plans[j]}],
  status      <- [j \in Jobs |-> LedgerStatus(snap[j].status)],
  bank        <- {k \in Keys : Valid(k)},
  held        <- Held

(***************************************************************************)
(* One process at a time implements the ledger: a job is reported done     *)
(* only from an open job with a whole chain of results in hand, and no     *)
(* result in hand is dropped.                                              *)
(***************************************************************************)
ImplementsLedger == Ledger!Spec

-----------------------------------------------------------------------------
(* Fairness: a process that can go on goes on (the operating system        *)
(* schedules it and no call blocks for ever), and the user resumes a job   *)
(* the window keeps offering (the recovery page lists recoverable jobs).   *)

Resume(w, j) == snap[j].status \in Recoverable /\ \E p \in Plans[j] : Submit(w, j, p)

Fairness ==
  /\ \A w \in Workers : WF_vars(Proceed(w))
  /\ \A j \in Jobs : SF_vars(\E w \in Workers : Resume(w, j))

LiveSpec == Spec /\ Fairness

(***************************************************************************)
(* Once the disturbances stop, a job that is resumed whenever it is        *)
(* offered comes to an end: no crash leaves behind what blocks it.         *)
(***************************************************************************)
ResumedJobsEnd ==
  \A j \in Jobs : (snap[j].status \in Recoverable) ~> (snap[j].status \notin Recoverable)
=============================================================================
