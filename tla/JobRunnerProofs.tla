--------------------------- MODULE JobRunnerProofs ---------------------------
(***************************************************************************)
(* First, any number of processes over one cache, one set of snapshots and *)
(* one history: the durable records tell what happened.  IInv is what each *)
(* process knows of the job it has in hand, action by action.              *)
(*                                                                         *)
(* Then what the runner and the cache do for each other.  With any number  *)
(* of processes: a call of the cache is about the step its process is at,  *)
(* and while the quota has room no finished step runs again.  With one     *)
(* process, the engine the window starts: no result in hand is dropped,    *)
(* the cache holds whole entries, the quota knows what is on disk, and the *)
(* runner implements the ledger.                                           *)
(***************************************************************************)
EXTENDS JobRunner, FiniteSetTheorems, TLAPS

Opening == {"prepare", "discover", "sweep", "begin", "beginHistory"}
Looping == {"step", "looked", "announce", "execute", "check", "publish", "progress"}
Ending  == {"complete", "completeHistory", "quota", "evict"}

\* Where a process is in its plan.
Position(w) ==
  /\ pc[w] \in Opening => at[w] = 1
  /\ pc[w] \in Looping => at[w] \in Steps
  /\ pc[w] \in Ending  => at[w] = N + 1

\* The steps behind a process are done, with the keys of its plan.
StepsDone(w) ==
  /\ plan[w] \in Plans[job[w]]
  /\ \A i \in Steps :
       (pc[w] \in Looping \cup Ending /\ i < at[w]) \/ (pc[w] = "progress" /\ i = at[w])
         => mem[w].steps[i].status \in Done /\ mem[w].steps[i].key = plan[w].keys[i]

\* The status a process has in memory, and when it is the one on disk.
StatusInHand(w) ==
  /\ pc[w] \in Looping \cup {"beginHistory", "complete"} => mem[w].status = "running"
  /\ pc[w] = "completeHistory" => mem[w].status = "completed"
  /\ pc[w] \in Looping \cup {"beginHistory", "complete", "completeHistory", "failHistory"}
       => snap[job[w]] = mem[w]

\* The history of an open job does not say completed.
HistoryOpen(w) ==
  pc[w] \in Looping \cup {"complete", "completeHistory", "failing"} => hist[job[w]] # "completed"

\* A run fails as cancelled only with its token set, and out of a running job;
\* one that was asked to stop in time does not reach its end.
CancelKnown(w) ==
  /\ kind[w] = "cancelled" => token[w]
  /\ kind[w] = "cancelled" /\ pc[w] = "failing" => snap[job[w]].status = "running"
  /\ pc[w] = "idle" => kind[w] = "failed"
  /\ asked[w] => token[w] /\ pc[w] \notin Ending
  /\ asked[w] /\ pc[w] \in {"looked", "publish", "progress"} => at[w] < N

Knows(w) == Position(w) /\ StepsDone(w) /\ StatusInHand(w) /\ HistoryOpen(w) /\ CancelKnown(w)

\* A job is in the hands of one process.
HasJob(w) == pc[w] \in Busy \cup {"unwind"}
Apart == \A u, w \in Workers : u # w /\ HasJob(u) /\ HasJob(w) => job[u] # job[w]

\* rmtree never lists the directory itself among what it unlinks first.
ChildrenOnly == \A w \in Workers : "dir" \notin todo[w]

RunTypes ==
  /\ snap \in [Jobs -> RecoverySnapshot] /\ hist \in [Jobs -> HistState] /\ workspace \in [Jobs -> BOOLEAN]
  /\ pc \in [Workers -> PC] /\ job \in [Workers -> Jobs] /\ plan \in [Workers -> Plan]
  /\ at \in [Workers -> 1..(N + 1)] /\ mem \in [Workers -> RecoverySnapshot]
  /\ token \in [Workers -> BOOLEAN] /\ kind \in [Workers -> {"failed", "cancelled"}]
  /\ seen \in [Workers -> SUBSET Jobs] /\ resumed \in [Workers -> BOOLEAN] /\ asked \in [Workers -> BOOLEAN]

RunInv == RunTypes /\ Apart /\ CompletedCoherent /\ \A w \in Workers : Knows(w)

IInv == CacheTypeOK /\ ChildrenOnly /\ RunInv

-----------------------------------------------------------------------------
(* The cache *)

\* A call of the cache, as one step of process w; every other step of the
\* runner leaves the cache alone but for the disturbances.
CacheCall(w) ==
  \/ \E k \in Keys : Lookup(w, k)
  \/ Touch(w) \/ TouchFails(w) \/ PublishBegin(w) \/ PublishMkdirFails(w)
  \/ PublishStep(w) \/ PublishFault(w)
  \/ Sweep(w) \/ (\E P \in SUBSET Keys : QuotaScan(w, P)) \/ QuotaStep(w) \/ RemoveLocked(w)
  \/ CacheCrash(w)
  \/ EndCall(w) /\ (Inject \/ UNCHANGED events) /\ UNCHANGED cacheRest
  \/ (Inject \/ UNCHANGED events) /\ UNCHANGED <<stage, target, cacheRest>>

\* What the process leaves behind is a directory tree again.
LEMMA TreesStayTrees ==
  /\ {} \in Tree /\ {"dir"} \in Tree /\ Tree \subseteq SUBSET Part
  /\ \A t \in Tree : /\ t \cup {"dir"} \in Tree /\ t \cup {"dir", "manifest"} \in Tree
                    /\ ("dir" \in t => t \cup {"files"} \in Tree)
                    /\ \A p \in Part \ {"dir"} : t \ {p} \in Tree
  BY DEF Tree, Part

\* Every call of the cache keeps the types of its state.
LEMMA CacheTypes ==
  ASSUME CacheTypeOK, ChildrenOnly, NEW w \in Workers, CacheCall(w)
  PROVE  CacheTypeOK' /\ ChildrenOnly'
<1> USE TreesStayTrees DEF CacheTypeOK, ChildrenOnly, Goto, SetTemp, quotaVars, Stage, EndCall, EndQuota, cacheRest
<1>1. ASSUME NEW k \in Keys, Lookup(w, k) PROVE CacheTypeOK' /\ ChildrenOnly'
  BY <1>1 DEF Lookup
<1>2. CASE Touch(w)
  <2>1. Touched[stage[w]] \in Stage
    BY <1>2 DEF Touch, Touched
  <2>2. stage' \in [Workers -> Stage]
    BY <1>2, <2>1 DEF Touch
  <2>3. entry' \in [Keys -> Tree]
    BY <1>2 DEF Touch
  <2> QED
    BY <1>2, <2>2, <2>3 DEF Touch
<1>3. CASE TouchFails(w)
  <2>1. Touched[stage[w]] \in Stage
    BY <1>3 DEF TouchFails, Touched
  <2> QED
    BY <1>3, <2>1 DEF TouchFails, Inject
<1>4. CASE PublishBegin(w) \/ PublishMkdirFails(w)
  <2>1. CASE PublishBegin(w)
    BY <2>1 DEF PublishBegin
  <2>2. CASE PublishMkdirFails(w)
    <3>1. litter' \in BOOLEAN
      BY <2>2 DEF PublishMkdirFails
    <3>2. events' \in Nat
      BY <2>2 DEF PublishMkdirFails, Inject
    <3> QED
      BY <2>2, <3>1, <3>2 DEF PublishMkdirFails
  <2> QED
    BY <1>4, <2>1, <2>2
<1>5. CASE PublishCopy(w) \/ PublishManifest(w) \/ PublishVerify(w) \/ PublishFails(w)
  <2>1. CASE PublishCopy(w)
    <3>1. temp[w] \in Tree
      OBVIOUS
    <3>2. "dir" \in temp[w] => temp[w] \cup {"files"} \in Tree
      BY <3>1, TreesStayTrees
    <3> QED
      BY <2>1, <3>2 DEF PublishCopy, PublishRaises
  <2>2. CASE PublishManifest(w)
    BY <2>2 DEF PublishManifest
  <2>3. CASE PublishVerify(w)
    BY <2>3 DEF PublishVerify, PublishRaises
  <2>4. CASE PublishFails(w)
    BY <2>4 DEF PublishFails, PublishRaises, Inject
  <2> QED
    BY <1>5, <2>1, <2>2, <2>3, <2>4
<1>6. CASE PublishReplace(w)
  BY <1>6 DEF PublishReplace, Renames, RenameRefused, PublishRaises
<1>7. CASE Sweep(w)
  BY <1>7 DEF Sweep
<1>8. ASSUME NEW P \in SUBSET Keys, QuotaScan(w, P) PROVE CacheTypeOK' /\ ChildrenOnly'
  <2>1. Cardinality(Present) \in Int
    BY WorkersAssumption, FS_Subset, FS_CardinalityType DEF Present
  <2> QED
    BY <1>8, <2>1 DEF QuotaScan, Present
<1>9. CASE QuotaNext(w)
  <2>1. PICK k \in victims[w] :
          /\ target' = [target EXCEPT ![w] = k]
          /\ todo' = [todo EXCEPT ![w] = entry[k] \ {"dir"}]
          /\ victims' = [victims EXCEPT ![w] = @ \ {k}]
    BY <1>9 DEF QuotaNext
  <2>2. k \in Keys /\ entry[k] \ {"dir"} \in SUBSET Part
    OBVIOUS
  <2> QED
    BY <1>9, <2>1, <2>2 DEF QuotaNext
<1>10. CASE RemoveChild(w)
  <2>1. PICK p \in todo[w] :
          \/ /\ entry' = [entry EXCEPT ![target[w]] = @ \ {p}]
             /\ todo'  = [todo EXCEPT ![w] = @ \ {p}]
             /\ UNCHANGED <<stage, target, victims, total>>
          \/ EndQuota(w) /\ UNCHANGED entry
    BY <1>10 DEF RemoveChild
  <2>2. p \in Part \ {"dir"}
    OBVIOUS
  <2>3. UNCHANGED <<temp, litter, events>>
    BY <1>10 DEF RemoveChild
  <2>4. CASE EndQuota(w) /\ UNCHANGED entry
    BY <2>3, <2>4
  <2>5. CASE /\ entry' = [entry EXCEPT ![target[w]] = @ \ {p}]
             /\ todo'  = [todo EXCEPT ![w] = @ \ {p}]
             /\ UNCHANGED <<stage, target, victims, total>>
    BY <2>2, <2>3, <2>5
  <2> QED
    BY <2>1, <2>4, <2>5
<1>11. CASE RemoveDir(w)
  <2>1. UNCHANGED <<temp, litter, events>>
    BY <1>11 DEF RemoveDir
  <2>2. CASE EndQuota(w) /\ UNCHANGED entry
    BY <2>1, <2>2
  <2>3. CASE ~(EndQuota(w) /\ UNCHANGED entry)
    <3>1. entry' = [entry EXCEPT ![target[w]] = {}] /\ total' = [total EXCEPT ![w] = @ - 1]
          /\ stage' = [stage EXCEPT ![w] = "quota"] /\ UNCHANGED <<todo, target, victims>>
      BY <1>11, <2>3 DEF RemoveDir
    <3>2. entry' \in [Keys -> Tree]
      BY <3>1
    <3>3. total' \in [Workers -> Int]
      BY <3>1
    <3>4. stage' \in [Workers -> Stage]
      BY <3>1
    <3> QED
      BY <2>1, <3>1, <3>2, <3>3, <3>4
  <2> QED
    BY <2>2, <2>3
<1>12. CASE RemoveLocked(w) \/ QuotaDone(w)
  <2>1. EndQuota(w) /\ UNCHANGED <<entry, temp, litter>> /\ (Inject \/ UNCHANGED events)
    BY <1>12 DEF RemoveLocked, QuotaDone
  <2>2. events' \in Nat
    BY <2>1 DEF Inject
  <2> QED
    BY <2>1, <2>2
<1>13. CASE CacheCrash(w)
  <2>1. litter' \in BOOLEAN /\ events' \in Nat
    BY <1>13 DEF CacheCrash, Inject
  <2>2. EndQuota(w) /\ temp' = [temp EXCEPT ![w] = {}] /\ UNCHANGED entry
    BY <1>13 DEF CacheCrash
  <2> QED
    BY <2>1, <2>2
<1>14. CASE EndCall(w) /\ (Inject \/ UNCHANGED events) /\ UNCHANGED cacheRest
  BY <1>14 DEF Inject
<1>15. CASE (Inject \/ UNCHANGED events) /\ UNCHANGED <<stage, target, cacheRest>>
  BY <1>15 DEF Inject
<1> QED
  BY <1>1, <1>2, <1>3, <1>4, <1>5, <1>6, <1>7, <1>8, <1>9, <1>10, <1>11, <1>12, <1>13, <1>14, <1>15
  DEF CacheCall, PublishStep, PublishFault, QuotaStep

-----------------------------------------------------------------------------
(* Snapshots *)

\* A snapshot that was just created is one, and is pending.
LEMMA NewSnapshots ==
  /\ NoSnapshot \in RecoverySnapshot /\ NoSnapshot.status = "absent"
  /\ \A sig \in Sigs : Create(sig) \in RecoverySnapshot /\ Create(sig).status = "pending"
<1>1. PendingSteps \in [Steps -> StepSnapshot]
  BY DEF PendingSteps, StepSnapshot, StepState, JobState, NoKey
<1> QED
  BY <1>1 DEF NoSnapshot, Create, RecoverySnapshot, JobState, NoKey

\* The fields of a snapshot.
LEMMA SnapshotFields ==
  ASSUME NEW m \in RecoverySnapshot
  PROVE  m.status \in JobState \cup {"absent"} /\ m.sig \in Sigs \cup {NoKey} /\ m.steps \in [Steps -> StepSnapshot]
  BY DEF RecoverySnapshot

\* A snapshot with another status.
LEMMA StatusSet ==
  ASSUME NEW m \in RecoverySnapshot, NEW s \in JobState
  PROVE  LET n == [m EXCEPT !.status = s] IN
         n \in RecoverySnapshot /\ n.status = s /\ n.steps = m.steps /\ n.sig = m.sig
  BY DEF RecoverySnapshot

\* A snapshot with one step changed (WithStep).
LEMMA StepSet ==
  ASSUME NEW m \in RecoverySnapshot, NEW i \in Steps, NEW s \in StepState, NEW k \in Keys
  PROVE  LET n == WithStep(m, i, s, k) IN
         /\ n \in RecoverySnapshot /\ n.status = m.status /\ n.sig = m.sig
         /\ n.steps[i].status = s /\ n.steps[i].key = k
         /\ \A d \in Steps : d # i => n.steps[d] = m.steps[d]
<1> DEFINE new   == [status |-> s, key |-> k]
           steps == [m.steps EXCEPT ![i] = new]
<1>1. new \in StepSnapshot /\ new.status = s /\ new.key = k
  BY DEF StepSnapshot
<1>2. m.steps \in [Steps -> StepSnapshot]
  BY SnapshotFields
<1>3. steps \in [Steps -> StepSnapshot] /\ steps[i] = new /\ \A d \in Steps : d # i => steps[d] = m.steps[d]
  BY <1>1, <1>2
<1>4. WithStep(m, i, s, k) = [m EXCEPT !.steps = steps]
  BY DEF WithStep
<1> HIDE DEF new, steps
<1>5. WithStep(m, i, s, k) \in RecoverySnapshot
  BY <1>3, <1>4 DEF RecoverySnapshot
<1>6. LET n == WithStep(m, i, s, k) IN n.steps = steps /\ n.status = m.status /\ n.sig = m.sig
  BY <1>4 DEF RecoverySnapshot
<1> QED
  BY <1>1, <1>3, <1>5, <1>6

\* A snapshot marked as the job ended (_mark_terminal).
LEMMA TerminalSet ==
  ASSUME NEW m \in RecoverySnapshot, NEW s \in JobState
  PROVE  MarkTerminal(m, s) \in RecoverySnapshot /\ MarkTerminal(m, s).status = s
<1> DEFINE steps == [i \in Steps |-> IF m.steps[i].status = "running" THEN [m.steps[i] EXCEPT !.status = s]
                                                                    ELSE m.steps[i]]
<1>1. \A i \in Steps : m.steps[i] \in StepSnapshot /\ [m.steps[i] EXCEPT !.status = s] \in StepSnapshot
  BY SnapshotFields DEF StepSnapshot, StepState
<1>2. steps \in [Steps -> StepSnapshot]
  BY <1>1
<1>3. MarkTerminal(m, s) = [m EXCEPT !.status = s, !.steps = steps]
  BY DEF MarkTerminal
<1> HIDE DEF steps
<1> QED
  BY <1>2, <1>3 DEF RecoverySnapshot

-----------------------------------------------------------------------------
(* One process at a time *)

\* What a step of process w leaves alone: the local state of the others, and
\* the records of the jobs they have in hand.
OnlyOf(w) ==
  \A u \in Workers : u # w =>
    /\ pc'[u] = pc[u] /\ job'[u] = job[u] /\ plan'[u] = plan[u] /\ at'[u] = at[u]
    /\ mem'[u] = mem[u] /\ token'[u] = token[u] /\ kind'[u] = kind[u] /\ asked'[u] = asked[u]
    /\ HasJob(u) => /\ snap'[job[u]] = snap[job[u]] /\ hist'[job[u]] = hist[job[u]]
                    /\ HasJob(w)' => job'[w] # job[u]

\* What another process knows of its job survives a step of w.
LEMMA OthersKnow ==
  ASSUME RunInv, NEW w \in Workers, OnlyOf(w), NEW u \in Workers, u # w
  PROVE  Knows(u)'
<1>1. Knows(u)
  BY DEF RunInv
<1>2. pc[u] \in Looping \cup Ending \cup {"beginHistory", "failing", "failHistory"} => HasJob(u)
  BY DEF HasJob, Busy, PC, Looping, Ending
<1>3. UNCHANGED <<pc[u], job[u], plan[u], at[u], mem[u], token[u], kind[u], asked[u]>>
  BY DEF OnlyOf
<1>4. HasJob(u) => UNCHANGED <<snap[job[u]], hist[job[u]]>>
  BY DEF OnlyOf
<1>5. Position(u)' /\ StepsDone(u)'
  BY <1>1, <1>3 DEF Knows, Position, StepsDone
<1>6. StatusInHand(u)' /\ HistoryOpen(u)' /\ CancelKnown(u)'
  BY <1>1, <1>2, <1>3, <1>4 DEF Knows, StatusInHand, HistoryOpen, CancelKnown, Looping, Ending
<1> QED
  BY <1>5, <1>6 DEF Knows

\* So a step has to be looked at from its own process only.
LEMMA Assembles ==
  ASSUME RunInv, NEW w \in Workers, RunTypes', OnlyOf(w), Knows(w)', CompletedCoherent'
  PROVE  RunInv'
<1>1. \A u \in Workers : Knows(u)'
  BY OthersKnow
<1>2. Apart'
  <2> SUFFICES ASSUME NEW u \in Workers, NEW v \in Workers, u # v, HasJob(u)', HasJob(v)'
               PROVE  job'[u] # job'[v]
    BY DEF Apart
  <2>1. \A x \in Workers : x # w => (HasJob(x)' <=> HasJob(x)) /\ job'[x] = job[x]
    BY DEF OnlyOf, HasJob
  <2>2. CASE u = w \/ v = w
    BY <2>1, <2>2 DEF OnlyOf
  <2>3. CASE u # w /\ v # w
    BY <2>1, <2>3 DEF RunInv, Apart
  <2> QED
    BY <2>2, <2>3
<1> QED
  BY <1>1, <1>2 DEF RunInv

\* What a snapshot that says completed needs.
Coherent(j, m) ==
  m.status = "completed" =>
    \E p \in Plans[j] : \A i \in Steps : m.steps[i].status \in Done /\ m.steps[i].key = p.keys[i]

\* A step of a run or of a cleanup, but for the start of one: it writes the
\* records of its own job only.
Acts(w) ==
  /\ UNCHANGED <<job, plan>>
  /\ \E l \in PC : pc' = [pc EXCEPT ![w] = l]
  /\ HasJob(w)' => HasJob(w)
  /\ at' = at \/ \E n \in 1..(N + 1) : at' = [at EXCEPT ![w] = n]
  /\ token' = token \/ \E b \in BOOLEAN : token' = [token EXCEPT ![w] = b]
  /\ asked' = asked \/ \E b \in BOOLEAN : asked' = [asked EXCEPT ![w] = b]
  /\ kind' = kind \/ \E k \in {"failed", "cancelled"} : kind' = [kind EXCEPT ![w] = k]
  /\ mem' = mem \/ \E m \in RecoverySnapshot : mem' = [mem EXCEPT ![w] = m]
  /\ hist' = hist \/ (HasJob(w) /\ \E h \in HistState : hist' = [hist EXCEPT ![job[w]] = h])
  /\ snap' = snap \/ (HasJob(w) /\ \E m \in RecoverySnapshot :
                        snap' = [snap EXCEPT ![job[w]] = m] /\ Coherent(job[w], m))
  /\ workspace' = workspace \/ workspace' \in [Jobs -> BOOLEAN]
  /\ seen' = seen \/ \E J \in SUBSET Jobs : seen' = [seen EXCEPT ![w] = J]
  /\ resumed' = resumed \/ \E b \in BOOLEAN : resumed' = [resumed EXCEPT ![w] = b]

\* Such a step keeps the types of the runner's state.
LEMMA ActsTypes == ASSUME RunTypes, NEW w \in Workers, Acts(w) PROVE RunTypes'
<1>1. snap' \in [Jobs -> RecoverySnapshot]
  BY DEF Acts, RunTypes
<1>2. hist' \in [Jobs -> HistState]
  BY DEF Acts, RunTypes
<1>3. pc' \in [Workers -> PC]
  BY DEF Acts, RunTypes
<1>4. at' \in [Workers -> 1..(N + 1)]
  BY DEF Acts, RunTypes
<1>5. mem' \in [Workers -> RecoverySnapshot]
  BY DEF Acts, RunTypes
<1>6. token' \in [Workers -> BOOLEAN]
  BY DEF Acts, RunTypes
<1>7. kind' \in [Workers -> {"failed", "cancelled"}]
  BY DEF Acts, RunTypes
<1>8. seen' \in [Workers -> SUBSET Jobs]
  BY DEF Acts, RunTypes
<1>9. resumed' \in [Workers -> BOOLEAN]
  BY DEF Acts, RunTypes
<1>10. asked' \in [Workers -> BOOLEAN]
  BY DEF Acts, RunTypes
<1> QED
  BY <1>1, <1>2, <1>3, <1>4, <1>5, <1>6, <1>7, <1>8, <1>9, <1>10 DEF Acts, RunTypes

\* Such a step keeps the invariant when its process still knows its job.
LEMMA ActsAssembles ==
  ASSUME RunInv, NEW w \in Workers, Acts(w), Knows(w)'
  PROVE  RunInv'
<1>1. RunTypes'
  BY ActsTypes DEF RunInv
<1>2. OnlyOf(w)
  <2> SUFFICES ASSUME NEW u \in Workers, u # w
               PROVE  /\ pc'[u] = pc[u] /\ job'[u] = job[u] /\ plan'[u] = plan[u] /\ at'[u] = at[u]
                      /\ mem'[u] = mem[u] /\ token'[u] = token[u] /\ kind'[u] = kind[u] /\ asked'[u] = asked[u]
                      /\ HasJob(u) => /\ snap'[job[u]] = snap[job[u]] /\ hist'[job[u]] = hist[job[u]]
                                      /\ HasJob(w)' => job'[w] # job[u]
    BY DEF OnlyOf
  <2>1. pc'[u] = pc[u] /\ job'[u] = job[u] /\ plan'[u] = plan[u]
    BY DEF Acts, RunInv, RunTypes
  <2>2. at'[u] = at[u] /\ mem'[u] = mem[u]
    BY DEF Acts, RunInv, RunTypes
  <2>3. token'[u] = token[u] /\ asked'[u] = asked[u]
    BY DEF Acts, RunInv, RunTypes
  <2>4. kind'[u] = kind[u]
    BY DEF Acts, RunInv, RunTypes
  <2>5. HasJob(u) /\ HasJob(w) => job[w] # job[u]
    BY DEF RunInv, Apart
  <2>6. HasJob(u) => snap'[job[u]] = snap[job[u]]
    BY <2>5 DEF Acts, RunInv, RunTypes
  <2>7. HasJob(u) => hist'[job[u]] = hist[job[u]]
    BY <2>5 DEF Acts, RunInv, RunTypes
  <2>8. HasJob(u) /\ HasJob(w)' => job'[w] # job[u]
    BY <2>5 DEF Acts
  <2> QED
    BY <2>1, <2>2, <2>3, <2>4, <2>6, <2>7, <2>8
<1>3. CompletedCoherent'
  <2>1. CASE snap' = snap
    BY <2>1 DEF RunInv, CompletedCoherent
  <2>2. ASSUME NEW m \in RecoverySnapshot, snap' = [snap EXCEPT ![job[w]] = m], Coherent(job[w], m)
        PROVE  CompletedCoherent'
    BY <2>2 DEF RunInv, RunTypes, CompletedCoherent, Coherent
  <2> QED
    BY <2>1, <2>2 DEF Acts
<1> QED
  BY <1>1, <1>2, <1>3, Assembles

-----------------------------------------------------------------------------
(* The actions of a run *)

\* What the invariant says of one process.
LEMMA InHand ==
  ASSUME RunInv, NEW w \in Workers
  PROVE  /\ Knows(w) /\ pc[w] \in PC /\ job[w] \in Jobs /\ plan[w] \in Plan /\ at[w] \in 1..(N + 1)
         /\ mem[w] \in RecoverySnapshot /\ snap[job[w]] \in RecoverySnapshot /\ kind[w] \in {"failed", "cancelled"}
         /\ token[w] \in BOOLEAN /\ asked[w] \in BOOLEAN
         /\ pc[w] \in Looping => at[w] \in Steps /\ Key(w) \in Keys
         /\ pc[w] \in Opening \cup Looping \cup Ending \cup {"failing", "failHistory", "unwind"} <=> HasJob(w)
<1>1. /\ Knows(w) /\ pc[w] \in PC /\ job[w] \in Jobs /\ plan[w] \in Plan /\ at[w] \in 1..(N + 1)
      /\ mem[w] \in RecoverySnapshot /\ snap[job[w]] \in RecoverySnapshot /\ kind[w] \in {"failed", "cancelled"}
      /\ token[w] \in BOOLEAN /\ asked[w] \in BOOLEAN
  BY DEF RunInv, RunTypes
<1>2. pc[w] \in Looping => at[w] \in Steps /\ Key(w) \in Keys
  BY <1>1 DEF Knows, Position, Plan, Key
<1>3. pc[w] \in Opening \cup Looping \cup Ending \cup {"failing", "failHistory", "unwind"} <=> HasJob(w)
  BY <1>1 DEF HasJob, Busy, PC, Opening, Looping, Ending
<1> QED
  BY <1>1, <1>2, <1>3

\* A step that changes where its process stands, and no record of the job.
Moves(w, l) ==
  /\ pc' = [pc EXCEPT ![w] = l]
  /\ UNCHANGED <<snap, hist, job, plan, at, mem, token, kind, resumed, asked>>

\* From where to where such a step may lead.
Onward ==
  ({"prepare"} \X {"discover", "return"}) \cup ({"discover"} \X {"sweep"}) \cup ({"sweep"} \X {"begin", "return"})
  \cup ({"step"} \X {"looked"}) \cup ({"looked"} \X {"looked"}) \cup ({"publish"} \X {"publish"})
  \cup ({"announce"} \X {"execute"}) \cup ({"execute"} \X {"check"})
  \cup ({"check"} \X {"publish"}) \cup ({"quota"} \X {"evict"}) \cup ({"evict"} \X {"evict", "unwind"})
  \cup ({"unwind"} \X {"return"}) \cup ({"idle"} \X {"cleanSweep"})
  \cup ({"cleanSweep"} \X {"cleanQuota", "return"})
  \cup ({"cleanQuota"} \X {"cleanEvict"}) \cup ({"cleanEvict"} \X {"cleanEvict", "return"})

\* A step along Onward keeps the invariant.
LEMMA MovesKeep ==
  ASSUME RunInv, NEW w \in Workers, NEW l \in PC, Moves(w, l), <<pc[w], l>> \in Onward,
         pc[w] \in {"step", "check"} => ~token[w],
         workspace' \in [Jobs -> BOOLEAN],
         seen' = seen \/ \E J \in SUBSET Jobs : seen' = [seen EXCEPT ![w] = J]
  PROVE  RunInv'
<1>1. pc'[w] = l /\ UNCHANGED <<snap, hist, job, plan, at, mem, token, kind, asked>>
  BY DEF Moves, RunInv, RunTypes
<1>2. HasJob(w)' => HasJob(w)
  BY <1>1 DEF HasJob, Busy, PC, Onward
<1>3. Acts(w)
  BY <1>2 DEF Acts, Moves
<1>4. Position(w)'
  BY <1>1, InHand DEF Knows, Position, Onward, Opening, Looping, Ending
<1>5. StepsDone(w)'
  BY <1>1, InHand DEF Knows, StepsDone, Onward, Looping, Ending
<1>6. StatusInHand(w)' /\ HistoryOpen(w)'
  BY <1>1, InHand DEF Knows, StatusInHand, HistoryOpen, Onward, Looping, Ending
<1>7. CancelKnown(w)'
  BY <1>1, InHand DEF Knows, CancelKnown, Onward, Ending
<1> QED
  BY <1>3, <1>4, <1>5, <1>6, <1>7, ActsAssembles DEF Knows

\* Every action that writes no record is a step along Onward.
LEMMA MovingKeeps ==
  ASSUME RunInv, NEW w \in Workers,
         \/ Prepare(w) \/ Discover(w) \/ SweepStart(w) \/ PrepareRaises(w) \/ SweepRaises(w)
         \/ StepStart(w) \/ TouchHit(w)
         \/ StartPublish(w) \/ Publishing(w) \/ Quota(w) \/ Evict(w) \/ Unwind(w)
         \/ Cleanup(w) \/ CleanupSweep(w) \/ CleanupQuota(w)
  PROVE  RunInv'
<1> USE DEF Moves, Onward, PC, Keep, Jump, At, diskVars
<1>1. workspace \in [Jobs -> BOOLEAN] /\ seen \in [Workers -> SUBSET Jobs] /\ job \in [Workers -> Jobs]
      /\ pc \in [Workers -> PC]
  BY DEF RunInv, RunTypes
<1>2. [workspace EXCEPT ![job[w]] = TRUE] \in [Jobs -> BOOLEAN]
      /\ [workspace EXCEPT ![job[w]] = FALSE] \in [Jobs -> BOOLEAN]
      /\ [j \in Jobs |-> workspace[j] /\ j \in seen[w]] \in [Jobs -> BOOLEAN]
  BY <1>1
<1>3. CASE Prepare(w)
  BY <1>1, <1>2, <1>3, MovesKeep DEF Prepare
<1>4. CASE Discover(w)
  <2>1. RecoverableJobs \cup {job[w]} \in SUBSET Jobs
    BY <1>1 DEF RecoverableJobs
  <2> QED
    BY <1>1, <1>4, <2>1, MovesKeep DEF Discover
<1>5. CASE SweepStart(w)
  BY <1>1, <1>2, <1>5, MovesKeep DEF SweepStart, SweepBoth
<1>6. CASE PrepareRaises(w) \/ SweepRaises(w)
  <2>1. CASE SweepRaises(w)
    BY <1>1, <2>1, MovesKeep DEF SweepRaises
  <2>2. CASE PrepareRaises(w)
    <3>1. workspace' = workspace \/ workspace' = [workspace EXCEPT ![job[w]] = FALSE]
      BY <2>2 DEF PrepareRaises
    <3>2. workspace' \in [Jobs -> BOOLEAN]
      BY <1>1, <1>2, <3>1
    <3> QED
      BY <1>1, <2>2, <3>2, MovesKeep DEF PrepareRaises
  <2> QED
    BY <1>6, <2>1, <2>2
<1>7. CASE StepStart(w)
  BY <1>1, <1>7, MovesKeep DEF StepStart
<1>8. CASE TouchHit(w)
  <2>1. pc' = [pc EXCEPT ![w] = "looked"]
    BY <1>1, <1>8 DEF TouchHit
  <2> QED
    BY <1>1, <1>8, <2>1, MovesKeep DEF TouchHit
<1>9. CASE StartPublish(w)
  BY <1>1, <1>9, MovesKeep DEF StartPublish
<1>10. CASE Publishing(w)
  <2>1. pc' = [pc EXCEPT ![w] = "publish"]
    BY <1>1, <1>10 DEF Publishing
  <2> QED
    BY <1>1, <1>10, <2>1, MovesKeep DEF Publishing
<1>11. CASE Quota(w)
  BY <1>1, <1>11, MovesKeep DEF Quota
<1>12. CASE Evict(w)
  <2> DEFINE l == IF stage'[w] # "idle" THEN pc[w] ELSE IF pc[w] = "evict" THEN "unwind" ELSE "return"
  <2>1. Moves(w, l) /\ workspace' = workspace /\ seen' = seen /\ pc[w] \in {"evict", "cleanEvict"}
    BY <1>12 DEF Evict
  <2>2. l \in PC /\ <<pc[w], l>> \in Onward
    BY <2>1
  <2> HIDE DEF l
  <2> QED
    BY <1>1, <2>1, <2>2, MovesKeep
<1>13. CASE Unwind(w)
  BY <1>1, <1>2, <1>13, MovesKeep DEF Unwind
<1>14. CASE Cleanup(w)
  <2>1. RecoverableJobs \in SUBSET Jobs
    BY DEF RecoverableJobs
  <2> QED
    BY <1>1, <1>14, <2>1, MovesKeep DEF Cleanup
<1>15. CASE CleanupSweep(w)
  BY <1>1, <1>2, <1>15, MovesKeep DEF CleanupSweep, SweepBoth
<1>16. CASE CleanupQuota(w)
  BY <1>1, <1>16, MovesKeep DEF CleanupQuota
<1> QED
  BY <1>3, <1>4, <1>5, <1>6, <1>7, <1>8, <1>9, <1>10, <1>11, <1>12, <1>13, <1>14, <1>15, <1>16

\* A run that raises: its records stay as they are, the handler is next.
LEMMA RaisesKeep ==
  ASSUME RunInv, NEW w \in Workers, pc[w] \in Looping \cup {"complete", "completeHistory"},
         NEW k \in {"failed", "cancelled"}, k = "cancelled" => token[w] /\ pc[w] \in Looping,
         pc' = [pc EXCEPT ![w] = "failing"], kind' = [kind EXCEPT ![w] = k],
         UNCHANGED <<diskVars, job, plan, at, mem, token, seen, resumed, asked>>
  PROVE  RunInv'
<1>1. pc'[w] = "failing" /\ kind'[w] = k /\ UNCHANGED <<snap, hist, job, plan, at, mem, token, asked>>
  BY DEF RunInv, RunTypes, diskVars
<1>2. HasJob(w)
  BY InHand DEF Ending
<1>3. Acts(w)
  BY <1>2 DEF Acts, diskVars, PC
<1>4. Knows(w)'
  BY <1>1, InHand DEF Knows, Position, StepsDone, StatusInHand, HistoryOpen, CancelKnown, Opening, Looping, Ending
<1> QED
  BY <1>3, <1>4, ActsAssembles

\* The actions that raise without writing a record keep the invariant.
LEMMA RaisingKeeps ==
  ASSUME RunInv, NEW w \in Workers, Cancelled(w) \/ CacheRaises(w) \/ Execute(w)
  PROVE  RunInv'
<1> USE DEF Raise, Jump, At, Keep, Looping
<1>1. CASE Cancelled(w)
  BY <1>1, RaisesKeep DEF Cancelled
<1>2. CASE CacheRaises(w)
  BY <1>2, RaisesKeep DEF CacheRaises
<1>3. CASE Execute(w)
  <2>1. CASE pc' = [pc EXCEPT ![w] = "check"] /\ UNCHANGED kind
    <3>1. workspace' \in [Jobs -> BOOLEAN]
      BY <1>3 DEF Execute, diskVars, RunInv, RunTypes
    <3> QED
      BY <1>3, <2>1, <3>1, MovesKeep DEF Execute, Moves, Onward, PC, diskVars
  <2>2. CASE ~(pc' = [pc EXCEPT ![w] = "check"] /\ UNCHANGED kind)
    BY <1>3, <2>2, RaisesKeep DEF Execute
  <2> QED
    BY <2>1, <2>2
<1> QED
  BY <1>1, <1>2, <1>3

\* A save of snapshot m and what is left to show for it.
LEMMA SavesKeep ==
  ASSUME RunInv, NEW w \in Workers, HasJob(w), NEW m \in RecoverySnapshot, Coherent(job[w], m),
         NEW l \in PC, l \notin {"idle", "cleanSweep", "cleanQuota", "cleanEvict"},
         NEW k \in {"failed", "cancelled"},
         pc' = [pc EXCEPT ![w] = l], mem' = [mem EXCEPT ![w] = m], kind' = [kind EXCEPT ![w] = k],
         snap' \in {snap, [snap EXCEPT ![job[w]] = m]},
         UNCHANGED <<hist, workspace, job, plan, at, token, seen, resumed, asked>>
  PROVE  /\ pc'[w] = l /\ mem'[w] = m /\ kind'[w] = k
         /\ snap' = [snap EXCEPT ![job[w]] = m] => snap'[job[w]] = m
         /\ Knows(w)' => RunInv'
<1>1. pc'[w] = l /\ mem'[w] = m /\ kind'[w] = k
  BY DEF RunInv, RunTypes
<1>2. snap' = [snap EXCEPT ![job[w]] = m] => snap'[job[w]] = m
  BY DEF RunInv, RunTypes
<1>3. Acts(w)
  BY DEF Acts
<1> QED
  BY <1>1, <1>2, <1>3, ActsAssembles

\* Every save of the loop and of the two ends of a run keeps the invariant,
\* whether it succeeds or raises.
LEMMA SavingKeeps ==
  ASSUME RunInv, NEW w \in Workers,
         Begin(w) \/ StepHit(w) \/ StepMiss(w) \/ StepDone(w) \/ Complete(w) \/ Fail(w)
  PROVE  RunInv'
<1> USE DEF Keep, At
<1>1. /\ Knows(w) /\ mem[w] \in RecoverySnapshot /\ kind[w] \in {"failed", "cancelled"}
      /\ kind = [kind EXCEPT ![w] = kind[w]] /\ job[w] \in Jobs
  BY InHand DEF RunInv, RunTypes
<1>2. ASSUME NEW m \in RecoverySnapshot, Coherent(job[w], m), HasJob(w),
             NEW l \in PC, l \notin {"idle", "cleanSweep", "cleanQuota", "cleanEvict"},
             Save(w, m, l), Keep(w), UNCHANGED at
      PROVE  /\ pc'[w] = l /\ mem'[w] = m /\ kind'[w] = kind[w] /\ snap'[job[w]] = m
             /\ UNCHANGED <<hist, job, plan, at, token, asked>>
             /\ Knows(w)' => RunInv'
  BY <1>1, <1>2, SavesKeep DEF Save, Jump
<1>3. ASSUME NEW m \in RecoverySnapshot, Coherent(job[w], m), HasJob(w),
             NEW l \in {"failing", "return", "unwind"}, SaveRaises(w, m, l), Keep(w), UNCHANGED at,
             l = "failing" => pc[w] \in Looping \cup {"complete"}
      PROVE  RunInv'
  <2>1. l \in PC /\ "failed" \in {"failed", "cancelled"}
    BY DEF PC
  <2>2. /\ pc'[w] = l /\ mem'[w] = m /\ kind'[w] = "failed"
        /\ UNCHANGED <<hist, job, plan, at, token, asked>>
        /\ Knows(w)' => RunInv'
    BY <1>1, <1>3, <2>1, SavesKeep DEF SaveRaises, Jump
  <2>3. Position(w)' /\ StepsDone(w)'
    BY <1>1, <1>3, <2>2 DEF Knows, Position, StepsDone, Opening, Looping, Ending
  <2>4. StatusInHand(w)' /\ HistoryOpen(w)'
    BY <1>1, <1>3, <2>2 DEF Knows, StatusInHand, HistoryOpen, Looping
  <2>5. CancelKnown(w)'
    BY <1>1, <1>3, <2>2 DEF Knows, CancelKnown, Ending
  <2> QED
    BY <2>2, <2>3, <2>4, <2>5 DEF Knows
<1>4. CASE Begin(w)
  <2>1. Running(w) \in RecoverySnapshot /\ Running(w).status = "running"
    BY <1>1, StatusSet DEF Running, JobState
  <2>2. Coherent(job[w], Running(w)) /\ HasJob(w)
    BY <1>4, <2>1, InHand DEF Coherent, Begin, Opening
  <2>3. CASE Save(w, Running(w), "beginHistory")
    <3>1. /\ pc'[w] = "beginHistory" /\ mem'[w] = Running(w) /\ kind'[w] = kind[w] /\ snap'[job[w]] = Running(w)
          /\ UNCHANGED <<hist, job, plan, at, token, asked>>
          /\ Knows(w)' => RunInv'
      BY <1>2, <1>4, <2>1, <2>2, <2>3 DEF Begin, PC
    <3>2. Knows(w)'
      BY <1>1, <1>4, <2>1, <3>1 DEF Begin, Knows, Position, StepsDone, StatusInHand, HistoryOpen, CancelKnown,
            Opening, Looping, Ending
    <3> QED
      BY <3>1, <3>2
  <2>4. CASE SaveRaises(w, Running(w), "return")
    BY <1>3, <1>4, <2>1, <2>2, <2>4 DEF Begin
  <2> QED
    BY <1>4, <2>3, <2>4 DEF Begin
\* The loop: the snapshot with one step changed.
<1>5. ASSUME NEW s \in StepState, pc[w] \in {"looked", "publish"}, NEW l \in {"progress", "announce"},
             l = "progress" => s \in Done, l = "announce" => pc[w] = "looked",
             LET m == WithStep(mem[w], at[w], s, Key(w)) IN Save(w, m, l) \/ SaveRaises(w, m, "failing"),
             Keep(w), UNCHANGED at
      PROVE  RunInv'
  <2> DEFINE m == WithStep(mem[w], at[w], s, Key(w))
  <2>1. at[w] \in Steps /\ Key(w) \in Keys /\ HasJob(w) /\ mem[w].status = "running"
    BY <1>1, <1>5, InHand DEF Knows, StatusInHand, Looping
  <2>2. /\ m \in RecoverySnapshot /\ m.status = "running"
        /\ m.steps[at[w]].status = s /\ m.steps[at[w]].key = Key(w)
        /\ \A d \in Steps : d # at[w] => m.steps[d] = mem[w].steps[d]
    BY <1>1, <2>1, StepSet
  <2>3. Save(w, m, l) \/ SaveRaises(w, m, "failing")
    BY <1>5
  <2>4. Coherent(job[w], m)
    BY <2>2 DEF Coherent
  <2> HIDE DEF m
  <2>5. CASE Save(w, m, l)
    <3>1. l \in PC /\ l \notin {"idle", "cleanSweep", "cleanQuota", "cleanEvict"}
      BY DEF PC
    <3>2. /\ pc'[w] = l /\ mem'[w] = m /\ kind'[w] = kind[w] /\ snap'[job[w]] = m
          /\ UNCHANGED <<hist, job, plan, at, token, asked>>
          /\ Knows(w)' => RunInv'
      BY <1>2, <1>5, <2>1, <2>2, <2>4, <2>5, <3>1
    <3>3. Position(w)'
      BY <1>5, <2>1, <3>2 DEF Position, Opening, Looping, Ending
    <3>4. \A i \in Steps : i < at[w] => mem[w].steps[i].status \in Done /\ mem[w].steps[i].key = plan[w].keys[i]
      BY <1>1, <1>5 DEF Knows, StepsDone, Looping
    <3>5. at[w] \in Nat /\ \A i \in Steps : i \in Nat
      BY <2>1, StepsAssumption DEF Steps
    <3>6. StepsDone(w)'
      BY <1>1, <1>5, <2>1, <2>2, <3>2, <3>4, <3>5 DEF Knows, StepsDone, Looping, Ending, Key
    <3>7. StatusInHand(w)' /\ HistoryOpen(w)'
      BY <1>1, <1>5, <2>2, <3>2 DEF Knows, StatusInHand, HistoryOpen, Looping
    <3>8. CancelKnown(w)'
      BY <1>1, <1>5, <3>2 DEF Knows, CancelKnown, Ending
    <3> QED
      BY <3>2, <3>3, <3>6, <3>7, <3>8 DEF Knows
  <2>6. CASE SaveRaises(w, m, "failing")
    <3>1. pc[w] \in Looping
      BY <1>5 DEF Looping
    <3> QED
      BY <1>3, <1>5, <2>1, <2>2, <2>4, <2>6, <3>1
  <2> QED
    BY <2>3, <2>5, <2>6
<1>6. CASE StepHit(w)
  <2>1. "cached" \in StepState /\ "cached" \in Done
    BY DEF StepState, Done
  <2> QED
    BY <1>5, <1>6, <2>1 DEF StepHit
<1>7. CASE StepMiss(w)
  <2>1. "running" \in StepState
    BY DEF StepState, JobState
  <2> QED
    BY <1>5, <1>7, <2>1 DEF StepMiss
<1>8. CASE StepDone(w)
  <2>1. "completed" \in StepState /\ "completed" \in Done
    BY DEF StepState, JobState, Done
  <2> QED
    BY <1>5, <1>8, <2>1 DEF StepDone
<1>9. CASE Complete(w)
  <2>1. Completed(w) \in RecoverySnapshot /\ Completed(w).status = "completed" /\ Completed(w).steps = mem[w].steps
    BY <1>1, StatusSet DEF Completed, JobState
  <2>2. at[w] = N + 1 /\ \A i \in Steps : i < at[w]
    BY <1>1, <1>9, StepsAssumption DEF Complete, Knows, Position, Ending, Steps
  <2>3. Coherent(job[w], Completed(w))
    BY <1>1, <1>9, <2>1, <2>2 DEF Coherent, Complete, Knows, StepsDone, Ending
  <2>4. HasJob(w)
    BY <1>9, InHand DEF Complete, Ending
  <2>5. CASE Save(w, Completed(w), "completeHistory")
    <3>1. /\ pc'[w] = "completeHistory" /\ mem'[w] = Completed(w) /\ kind'[w] = kind[w]
          /\ snap'[job[w]] = Completed(w)
          /\ UNCHANGED <<hist, job, plan, at, token, asked>>
          /\ Knows(w)' => RunInv'
      BY <1>2, <1>9, <2>1, <2>3, <2>4, <2>5 DEF Complete, PC
    <3>2. Position(w)' /\ StepsDone(w)'
      BY <1>1, <1>9, <2>1, <2>2, <3>1 DEF Complete, Knows, Position, StepsDone, Opening, Looping, Ending
    <3>3. StatusInHand(w)' /\ HistoryOpen(w)' /\ CancelKnown(w)'
      BY <1>1, <1>9, <2>1, <3>1 DEF Complete, Knows, StatusInHand, HistoryOpen, CancelKnown, Looping, Ending
    <3> QED
      BY <3>1, <3>2, <3>3 DEF Knows
  <2>6. CASE SaveRaises(w, Completed(w), "failing")
    BY <1>3, <1>9, <2>1, <2>3, <2>4, <2>6 DEF Complete
  <2> QED
    BY <1>9, <2>5, <2>6 DEF Complete
<1>10. CASE Fail(w)
  <2> DEFINE m == MarkTerminal(mem[w], kind[w])
  <2>1. m \in RecoverySnapshot /\ m.status = kind[w]
    BY <1>1, TerminalSet DEF JobState
  <2>2. HasJob(w) /\ Coherent(job[w], m)
    BY <1>1, <1>10, <2>1, InHand DEF Fail, Coherent
  <2>3. Save(w, m, "failHistory") \/ SaveRaises(w, m, "unwind")
    BY <1>10 DEF Fail
  <2> HIDE DEF m
  <2>4. CASE Save(w, m, "failHistory")
    <3>1. /\ pc'[w] = "failHistory" /\ mem'[w] = m /\ kind'[w] = kind[w] /\ snap'[job[w]] = m
          /\ UNCHANGED <<hist, job, plan, at, token, asked>>
          /\ Knows(w)' => RunInv'
      BY <1>2, <1>10, <2>1, <2>2, <2>4 DEF Fail, PC
    <3>2. Knows(w)'
      BY <1>1, <1>10, <3>1 DEF Fail, Knows, Position, StepsDone, StatusInHand, HistoryOpen, CancelKnown,
            Opening, Looping, Ending
    <3> QED
      BY <3>1, <3>2
  <2>5. CASE SaveRaises(w, m, "unwind")
    BY <1>3, <1>10, <2>1, <2>2, <2>5 DEF Fail
  <2> QED
    BY <2>3, <2>4, <2>5
<1> QED
  BY <1>4, <1>6, <1>7, <1>8, <1>9, <1>10

\* A step that leaves the snapshots alone, with what it changes of its process.
LEMMA RecordsKeep ==
  ASSUME RunInv, NEW w \in Workers, HasJob(w), NEW l \in PC,
         l \notin {"idle", "cleanSweep", "cleanQuota", "cleanEvict"},
         NEW h \in HistState, NEW n \in 1..(N + 1), NEW k \in {"failed", "cancelled"},
         pc' = [pc EXCEPT ![w] = l], hist' = [hist EXCEPT ![job[w]] = h],
         at' = [at EXCEPT ![w] = n], kind' = [kind EXCEPT ![w] = k],
         UNCHANGED <<snap, workspace, job, plan, mem, token, seen, resumed, asked>>
  PROVE  /\ pc'[w] = l /\ hist'[job[w]] = h /\ at'[w] = n /\ kind'[w] = k
         /\ Knows(w)' => RunInv'
<1>1. pc'[w] = l /\ hist'[job[w]] = h /\ at'[w] = n /\ kind'[w] = k
  BY DEF RunInv, RunTypes
<1>2. Acts(w)
  BY DEF Acts
<1> QED
  BY <1>1, <1>2, ActsAssembles

\* Every entry in the history keeps the invariant, made or refused.
LEMMA RecordingKeeps ==
  ASSUME RunInv, NEW w \in Workers,
         BeginHistory(w) \/ Announce(w) \/ Progress(w) \/ CompleteHistory(w) \/ FailHistory(w)
  PROVE  RunInv'
<1> USE DEF Keep, At
<1>1. /\ Knows(w) /\ at[w] \in 1..(N + 1) /\ kind[w] \in {"failed", "cancelled"} /\ job[w] \in Jobs
      /\ kind = [kind EXCEPT ![w] = kind[w]] /\ at = [at EXCEPT ![w] = at[w]]
      /\ hist[job[w]] \in HistState /\ hist = [hist EXCEPT ![job[w]] = hist[job[w]]]
  BY InHand DEF RunInv, RunTypes
<1>2. N \in Nat \ {0} /\ \A i : i \in Steps <=> i \in Nat /\ 1 <= i /\ i <= N
  BY StepsAssumption DEF Steps
<1>3. pc[w] \in {"beginHistory", "announce", "progress", "completeHistory", "failHistory"} => HasJob(w)
  BY InHand DEF Opening, Looping, Ending
<1>4. ASSUME NEW l \in PC, l \notin {"idle", "cleanSweep", "cleanQuota", "cleanEvict"},
             NEW h \in HistState, NEW n \in 1..(N + 1), HasJob(w), Record(w, h, l),
             at' = [at EXCEPT ![w] = n], UNCHANGED <<snap, workspace, mem>>, Keep(w)
      PROVE  /\ pc'[w] = l /\ hist'[job[w]] = h /\ at'[w] = n /\ kind'[w] = kind[w]
             /\ UNCHANGED <<snap, job, plan, mem, token, asked>>
             /\ Knows(w)' => RunInv'
  BY <1>1, <1>4, RecordsKeep DEF Record, Jump
<1>5. ASSUME RecordRaises(w, "failing"), pc[w] \in Looping \cup {"completeHistory"}, Keep(w),
             UNCHANGED <<snap, workspace, mem, at>>
      PROVE  RunInv'
  BY <1>5, RaisesKeep DEF RecordRaises, Jump, diskVars
<1>6. CASE BeginHistory(w)
  <2>1. pc[w] = "beginHistory" /\ at[w] = 1 /\ HasJob(w)
    BY <1>1, <1>3, <1>6 DEF BeginHistory, Knows, Position, Opening
  <2>2. CASE Record(w, "running", "step")
    <3>1. /\ pc'[w] = "step" /\ hist'[job[w]] = "running" /\ at'[w] = 1 /\ kind'[w] = kind[w]
          /\ UNCHANGED <<snap, job, plan, mem, token, asked>>
          /\ Knows(w)' => RunInv'
      BY <1>1, <1>4, <1>6, <2>1, <2>2 DEF BeginHistory, PC, HistState, JobState
    <3>2. Position(w)' /\ StepsDone(w)'
      BY <1>1, <1>2, <2>1, <3>1 DEF Knows, Position, StepsDone, Opening, Looping, Ending
    <3>3. StatusInHand(w)' /\ HistoryOpen(w)' /\ CancelKnown(w)'
      BY <1>1, <2>1, <3>1 DEF Knows, StatusInHand, HistoryOpen, CancelKnown, Looping, Ending
    <3> QED
      BY <3>1, <3>2, <3>3 DEF Knows
  <2>3. CASE RecordRaises(w, "return")
    <3>1. /\ pc'[w] = "return" /\ kind'[w] = "failed"
          /\ UNCHANGED <<snap, hist, job, plan, mem, at, token, asked>>
          /\ Knows(w)' => RunInv'
      <4>1. /\ pc' = [pc EXCEPT ![w] = "return"] /\ kind' = [kind EXCEPT ![w] = "failed"]
            /\ UNCHANGED <<snap, hist, workspace, job, plan, at, mem, token, seen, resumed, asked>>
        BY <1>6, <2>3 DEF BeginHistory, RecordRaises, Jump
      <4>2. "return" \in PC /\ "failed" \in {"failed", "cancelled"}
        BY DEF PC
      <4>3. Acts(w)
        BY <2>1, <4>1, <4>2 DEF Acts
      <4>4. pc'[w] = "return" /\ kind'[w] = "failed"
        BY <4>1 DEF RunInv, RunTypes
      <4> QED
        BY <4>1, <4>3, <4>4, ActsAssembles
    <3>2. Knows(w)'
      BY <1>1, <2>1, <3>1 DEF Knows, Position, StepsDone, StatusInHand, HistoryOpen, CancelKnown,
            Opening, Looping, Ending
    <3> QED
      BY <3>1, <3>2
  <2> QED
    BY <1>6, <2>2, <2>3 DEF BeginHistory
<1>7. CASE Announce(w)
  <2>1. pc[w] = "announce" /\ HasJob(w)
    BY <1>3, <1>7 DEF Announce
  <2>2. CASE Record(w, "running", "execute")
    <3>1. /\ pc'[w] = "execute" /\ hist'[job[w]] = "running" /\ at'[w] = at[w] /\ kind'[w] = kind[w]
          /\ UNCHANGED <<snap, job, plan, mem, token, asked>>
          /\ Knows(w)' => RunInv'
      BY <1>1, <1>4, <1>7, <2>1, <2>2 DEF Announce, PC, HistState, JobState
    <3>2. Position(w)' /\ StepsDone(w)'
      BY <1>1, <2>1, <3>1 DEF Knows, Position, StepsDone, Opening, Looping, Ending
    <3>3. StatusInHand(w)' /\ HistoryOpen(w)' /\ CancelKnown(w)'
      BY <1>1, <2>1, <3>1 DEF Knows, StatusInHand, HistoryOpen, CancelKnown, Looping, Ending
    <3> QED
      BY <3>1, <3>2, <3>3 DEF Knows
  <2> QED
    BY <1>5, <1>7, <2>2 DEF Announce, Looping
<1>8. CASE Progress(w)
  <2>1. pc[w] = "progress" /\ HasJob(w) /\ at[w] \in Steps
    BY <1>1, <1>3, <1>8 DEF Progress, Knows, Position, Looping
  <2> DEFINE l == IF at[w] = N THEN "complete" ELSE "step"
  <2>2. CASE Record(w, "running", l) /\ at' = [at EXCEPT ![w] = @ + 1]
    <3>1. at[w] + 1 \in 1..(N + 1) /\ (at[w] # N => at[w] + 1 \in Steps)
      BY <1>2, <2>1
    <3>2. l \in PC /\ l \notin {"idle", "cleanSweep", "cleanQuota", "cleanEvict"} /\ "running" \in HistState
      BY DEF PC, HistState, JobState
    <3>3. /\ pc'[w] = l /\ hist'[job[w]] = "running" /\ at'[w] = at[w] + 1 /\ kind'[w] = kind[w]
          /\ UNCHANGED <<snap, job, plan, mem, token, asked>>
          /\ Knows(w)' => RunInv'
      BY <1>4, <1>8, <2>1, <2>2, <3>1, <3>2 DEF Progress
    <3>4. Position(w)'
      BY <3>1, <3>3 DEF Position, Opening, Looping, Ending
    <3>5. \A i \in Steps : i < at[w] + 1 => i < at[w] \/ i = at[w]
      BY <1>2, <2>1
    <3>6. pc'[w] # "progress"
      BY <3>3
    <3>7. StepsDone(w)'
      BY <1>1, <2>1, <3>3, <3>5, <3>6 DEF Knows, StepsDone, Looping
    <3>8. StatusInHand(w)' /\ HistoryOpen(w)' /\ CancelKnown(w)'
      BY <1>1, <1>2, <2>1, <3>3 DEF Knows, StatusInHand, HistoryOpen, CancelKnown, Looping, Ending
    <3> QED
      BY <3>3, <3>4, <3>7, <3>8 DEF Knows
  <2> QED
    BY <1>5, <1>8, <2>2 DEF Progress, Looping
<1>9. CASE CompleteHistory(w)
  <2>1. pc[w] = "completeHistory" /\ HasJob(w)
    BY <1>3, <1>9 DEF CompleteHistory
  <2>2. CASE Record(w, "completed", "quota")
    <3>1. /\ pc'[w] = "quota" /\ hist'[job[w]] = "completed" /\ at'[w] = at[w] /\ kind'[w] = kind[w]
          /\ UNCHANGED <<snap, job, plan, mem, token, asked>>
          /\ Knows(w)' => RunInv'
      BY <1>1, <1>4, <1>9, <2>1, <2>2 DEF CompleteHistory, PC, HistState, JobState
    <3>2. Position(w)' /\ StepsDone(w)'
      BY <1>1, <2>1, <3>1 DEF Knows, Position, StepsDone, Opening, Looping, Ending
    <3>3. StatusInHand(w)' /\ HistoryOpen(w)' /\ CancelKnown(w)'
      BY <1>1, <2>1, <3>1 DEF Knows, StatusInHand, HistoryOpen, CancelKnown, Looping, Ending
    <3> QED
      BY <3>1, <3>2, <3>3 DEF Knows
  <2> QED
    BY <1>5, <1>9, <2>2 DEF CompleteHistory
<1>10. CASE FailHistory(w)
  <2>1. pc[w] = "failHistory" /\ HasJob(w) /\ mem[w].status \in HistState
    BY <1>3, <1>10, InHand, SnapshotFields DEF FailHistory, HistState
  <2>2. Knows(w)' => RunInv'
    BY <1>1, <1>10, <2>1, RecordsKeep DEF FailHistory, Record, RecordRaises, Jump, PC
  <2>3. pc'[w] = "unwind" /\ kind'[w] \in {kind[w], "failed"} /\ UNCHANGED <<snap, job, plan, mem, at, token, asked>>
    BY <1>10 DEF FailHistory, Record, RecordRaises, Jump, RunInv, RunTypes
  <2>4. Knows(w)'
    BY <1>1, <2>1, <2>3 DEF Knows, Position, StepsDone, StatusInHand, HistoryOpen, CancelKnown,
          Opening, Looping, Ending
  <2> QED
    BY <2>2, <2>4
<1> QED
  BY <1>6, <1>7, <1>8, <1>9, <1>10

\* A call that is over, or a process that died, leaves the records alone.
LEMMA LeavingKeeps ==
  ASSUME RunInv, NEW w \in Workers, Return(w) \/ Crash(w)
  PROVE  RunInv'
<1>1. Leave(w) /\ UNCHANGED diskVars
  BY DEF Return, Crash
<1>2. "idle" \in PC /\ NoSnapshot \in RecoverySnapshot /\ 1 \in 1..(N + 1)
  BY NewSnapshots, StepsAssumption DEF PC
<1>3. ~HasJob(w)'
  BY <1>1 DEF Leave, Jump, HasJob, Busy, RunInv, RunTypes
<1>4. Acts(w)
  BY <1>1, <1>2, <1>3 DEF Acts, Leave, Jump, diskVars
<1>5. /\ pc'[w] = "idle" /\ kind'[w] = "failed" /\ asked'[w] = FALSE
      /\ UNCHANGED <<job, plan>>
  BY <1>1 DEF Leave, Jump, RunInv, RunTypes
<1>6. Knows(w)'
  BY <1>5, InHand DEF Knows, Position, StepsDone, StatusInHand, HistoryOpen, CancelKnown, Opening, Looping, Ending
<1> QED
  BY <1>4, <1>6, ActsAssembles

\* A cancellation sets the token; it counts as asked for only where a step is
\* still to be checked.
LEMMA CancelKeeps ==
  ASSUME RunInv, NEW w \in Workers, Cancel(w)
  PROVE  RunInv'
<1>1. Knows(w) /\ at[w] \in 1..(N + 1)
  BY InHand
<1>2. StillChecked(w) \in BOOLEAN
  BY DEF StillChecked
<1>3. pc' = [pc EXCEPT ![w] = pc[w]] /\ pc[w] \in PC
  BY DEF Cancel, RunInv, RunTypes
<1>4. HasJob(w)' => HasJob(w)
  BY DEF Cancel, HasJob
<1>5. Acts(w)
  BY <1>2, <1>3, <1>4 DEF Acts, Cancel, diskVars
<1>6. /\ token'[w] = TRUE /\ asked'[w] = StillChecked(w)
      /\ UNCHANGED <<snap, hist, pc, job, plan, at, mem, kind>>
  BY DEF Cancel, diskVars, RunInv, RunTypes
<1>7. Position(w)' /\ StepsDone(w)' /\ StatusInHand(w)' /\ HistoryOpen(w)'
  BY <1>1, <1>6 DEF Knows, Position, StepsDone, StatusInHand, HistoryOpen
<1>8. N \in Nat
  BY StepsAssumption
<1>9. StillChecked(w) => pc[w] \notin Ending /\ (pc[w] \in {"looked", "publish", "progress"} => at[w] < N)
  BY <1>1, <1>8 DEF Knows, Position, StillChecked, Ending
<1>10. CancelKnown(w)'
  BY <1>1, <1>6, <1>9 DEF Knows, CancelKnown
<1> QED
  BY <1>5, <1>7, <1>10, ActsAssembles DEF Knows

\* A new run takes a job no other process has in hand, with the snapshot as
\* it is on disk or a new one.
LEMMA SubmitKeeps ==
  ASSUME RunInv, NEW w \in Workers, NEW j \in Jobs, NEW p \in Plans[j], Submit(w, j, p)
  PROVE  RunInv'
<1> DEFINE m == IF snap[j].status = "absent" THEN Create(p.sig) ELSE snap[j]
<1>1. p \in Plan /\ p.sig \in Sigs
  BY PlansAssumption DEF Plan
<1>2. /\ m \in RecoverySnapshot /\ m.status # "absent"
      /\ Coherent(j, m)
  BY <1>1, NewSnapshots DEF Coherent, RunInv, RunTypes, CompletedCoherent
<1>3. /\ job' = [job EXCEPT ![w] = j] /\ plan' = [plan EXCEPT ![w] = p] /\ at' = [at EXCEPT ![w] = 1]
      /\ mem' = [mem EXCEPT ![w] = m] /\ snap' = [snap EXCEPT ![j] = m] /\ token' = [token EXCEPT ![w] = FALSE]
      /\ asked' = [asked EXCEPT ![w] = FALSE] /\ resumed' = [resumed EXCEPT ![w] = snap[j].status \in Recoverable]
      /\ pc' = [pc EXCEPT ![w] = "prepare"] /\ UNCHANGED <<hist, workspace, kind, seen>>
      /\ pc[w] = "idle" /\ \A u \in Workers : HasJob(u) => job[u] # j
  BY DEF Submit, Jump, At, Free, HasJob
<1> HIDE DEF m
<1>4. snap' \in [Jobs -> RecoverySnapshot] /\ mem' \in [Workers -> RecoverySnapshot]
  BY <1>2, <1>3 DEF RunInv, RunTypes
<1>5. pc' \in [Workers -> PC] /\ at' \in [Workers -> 1..(N + 1)]
  BY <1>3, StepsAssumption DEF RunInv, RunTypes, PC
<1>6. job' \in [Workers -> Jobs] /\ plan' \in [Workers -> Plan]
  BY <1>1, <1>3 DEF RunInv, RunTypes
<1>7. token' \in [Workers -> BOOLEAN] /\ asked' \in [Workers -> BOOLEAN]
  BY <1>3 DEF RunInv, RunTypes
<1>8. resumed' \in [Workers -> BOOLEAN]
  <2>1. (snap[j].status \in Recoverable) \in BOOLEAN
    OBVIOUS
  <2> QED
    BY <1>3, <2>1 DEF RunInv, RunTypes
<1>9. RunTypes'
  BY <1>3, <1>4, <1>5, <1>6, <1>7, <1>8 DEF RunInv, RunTypes
<1>10. OnlyOf(w)
  <2> SUFFICES ASSUME NEW u \in Workers, u # w
               PROVE  /\ pc'[u] = pc[u] /\ job'[u] = job[u] /\ plan'[u] = plan[u] /\ at'[u] = at[u]
                      /\ mem'[u] = mem[u] /\ token'[u] = token[u] /\ kind'[u] = kind[u] /\ asked'[u] = asked[u]
                      /\ HasJob(u) => /\ snap'[job[u]] = snap[job[u]] /\ hist'[job[u]] = hist[job[u]]
                                      /\ HasJob(w)' => job'[w] # job[u]
    BY DEF OnlyOf
  <2>1. pc'[u] = pc[u] /\ job'[u] = job[u] /\ plan'[u] = plan[u] /\ at'[u] = at[u]
    BY <1>3 DEF RunInv, RunTypes
  <2>2. mem'[u] = mem[u] /\ token'[u] = token[u] /\ kind'[u] = kind[u] /\ asked'[u] = asked[u]
    BY <1>3 DEF RunInv, RunTypes
  <2>3. HasJob(u) => snap'[job[u]] = snap[job[u]] /\ hist'[job[u]] = hist[job[u]]
    BY <1>3 DEF RunInv, RunTypes
  <2>4. job'[w] = j
    BY <1>3 DEF RunInv, RunTypes
  <2> QED
    BY <1>3, <2>1, <2>2, <2>3, <2>4
<1>11. CompletedCoherent'
  BY <1>2, <1>3 DEF RunInv, RunTypes, CompletedCoherent, Coherent
<1>12. /\ pc'[w] = "prepare" /\ at'[w] = 1 /\ plan'[w] = p /\ job'[w] = j /\ token'[w] = FALSE /\ asked'[w] = FALSE
       /\ kind'[w] = kind[w] /\ pc[w] = "idle"
  BY <1>3 DEF RunInv, RunTypes
<1>13. Knows(w)'
  BY <1>12, InHand DEF Knows, Position, StepsDone, StatusInHand, HistoryOpen, CancelKnown, Opening, Looping, Ending
<1> QED
  BY <1>9, <1>10, <1>11, <1>13, Assembles

\* A run that cannot be recorded leaves an open snapshot behind, or none.
LEMMA SubmitRaisesKeeps ==
  ASSUME RunInv, NEW w \in Workers, NEW j \in Jobs, NEW p \in Plans[j], SubmitRaises(w, j, p)
  PROVE  RunInv'
<1>1. p \in Plan /\ p.sig \in Sigs
  BY PlansAssumption DEF Plan
<1>2. /\ snap' = snap \/ snap' = [snap EXCEPT ![j] = Create(p.sig)]
      /\ UNCHANGED <<hist, workspace, pc, job, plan, at, mem, token, kind, seen, resumed, asked>>
      /\ pc[w] = "idle" /\ \A u \in Workers : HasJob(u) => job[u] # j
  BY DEF SubmitRaises, At, Free, HasJob, runVars
<1>3. snap' \in [Jobs -> RecoverySnapshot]
  BY <1>1, <1>2, NewSnapshots DEF RunInv, RunTypes
<1>4. RunTypes'
  BY <1>2, <1>3 DEF RunInv, RunTypes
<1>5. ~HasJob(w)'
  BY <1>2 DEF HasJob, Busy
<1>6. OnlyOf(w)
  <2>1. ASSUME NEW u \in Workers, HasJob(u) PROVE snap'[job[u]] = snap[job[u]]
    BY <1>2, <2>1 DEF RunInv, RunTypes
  <2> QED
    BY <1>2, <1>5, <2>1 DEF OnlyOf
<1>7. CompletedCoherent'
  <2>1. CASE snap' = snap
    BY <2>1 DEF RunInv, CompletedCoherent
  <2>2. CASE snap' = [snap EXCEPT ![j] = Create(p.sig)]
    <3>1. Create(p.sig).status # "completed"
      BY <1>1, NewSnapshots
    <3> QED
      BY <2>2, <3>1 DEF RunInv, RunTypes, CompletedCoherent
  <2> QED
    BY <1>2, <2>1, <2>2
<1>8. Knows(w)'
  BY <1>2, InHand DEF Knows, Position, StepsDone, StatusInHand, HistoryOpen, CancelKnown, Opening, Looping, Ending
<1> QED
  BY <1>4, <1>6, <1>7, <1>8, Assembles

-----------------------------------------------------------------------------
(* The invariant *)

\* Whatever a step of process w may do.
StepOf(w) ==
  \/ Proceed(w) \/ PrepareRaises(w) \/ SweepRaises(w) \/ Cancel(w) \/ Crash(w) \/ Cleanup(w)
  \/ \E j \in Jobs : \E p \in Plans[j] : Submit(w, j, p) \/ SubmitRaises(w, j, p)

\* Whatever a process does is one call of the cache, or none.
LEMMA StepsCallCache ==
  ASSUME RunInv, NEW w \in Workers,
         StepOf(w)
  PROVE  CacheCall(w)
<1> USE DEF CacheCall
<1>1. CASE Prepare(w) \/ Discover(w) \/ Unwind(w) \/ Return(w)
  BY <1>1 DEF Prepare, Discover, Unwind, Return, cacheVars, cacheRest, quotaVars
<1>2. CASE SweepStart(w) \/ CleanupSweep(w)
  BY <1>2 DEF SweepStart, CleanupSweep, SweepBoth
<1>3. CASE Begin(w) \/ StepMiss(w) \/ Complete(w)
  BY <1>3 DEF Begin, StepMiss, Complete, Save, SaveRaises
<1>4. CASE BeginHistory(w) \/ Announce(w) \/ Progress(w) \/ CompleteHistory(w) \/ FailHistory(w)
  BY <1>4 DEF BeginHistory, Announce, Progress, CompleteHistory, FailHistory, Record, RecordRaises
<1>5. CASE StepStart(w)
  BY <1>5, InHand DEF StepStart, At, Looping
<1>6. CASE Cancelled(w) \/ CacheRaises(w)
  BY <1>6 DEF Cancelled, CacheRaises, Acknowledge
<1>7. CASE TouchHit(w) \/ StartPublish(w) \/ Publishing(w) \/ Evict(w)
  BY <1>7 DEF TouchHit, StartPublish, Publishing, Evict
<1>8. CASE StepHit(w) \/ StepDone(w) \/ Fail(w)
  BY <1>8 DEF StepHit, StepDone, Fail, Acknowledge, Save, SaveRaises
<1>9. CASE Execute(w)
  BY <1>9 DEF Execute
<1>10. CASE Quota(w)
  <2>1. PlanKeys(w) \in SUBSET Keys
    BY InHand DEF PlanKeys, Plan
  <2> QED
    BY <1>10, <2>1 DEF Quota
<1>11. CASE CleanupQuota(w)
  BY <1>11 DEF CleanupQuota
<1>12. CASE PrepareRaises(w) \/ SweepRaises(w) \/ Cancel(w) \/ Cleanup(w) \/ Crash(w)
  BY <1>12 DEF SweepRaises, PrepareRaises, Cancel, Cleanup, Crash
<1>13. ASSUME NEW j \in Jobs, NEW p \in Plans[j], Submit(w, j, p) \/ SubmitRaises(w, j, p)
       PROVE  CacheCall(w)
  BY <1>13 DEF Submit, SubmitRaises, cacheVars, cacheRest, quotaVars
<1> QED
  BY <1>1, <1>2, <1>3, <1>4, <1>5, <1>6, <1>7, <1>8, <1>9, <1>10, <1>11, <1>12, <1>13 DEF StepOf, Proceed

\* The invariant holds at first: nothing is cached, recorded or running.
LEMMA InitInv == Init => IInv
<1> SUFFICES ASSUME Init PROVE IInv
  OBVIOUS
<1>1. CacheTypeOK /\ ChildrenOnly
  <2>1. CacheInit /\ MaxEvents \in Nat /\ {} \in Tree
    BY TreesStayTrees, LimitAssumption DEF Init
  <2>2. stage \in [Workers -> Stage] /\ target \in [Workers -> Keys \cup {NoKey}]
    BY <2>1 DEF CacheInit, Stage
  <2>3. todo \in [Workers -> SUBSET Part] /\ victims \in [Workers -> SUBSET Keys] /\ total \in [Workers -> Int]
    BY <2>1 DEF CacheInit
  <2> QED
    BY <2>1, <2>2, <2>3 DEF CacheInit, CacheTypeOK, ChildrenOnly
<1>2. AnyJob \in Jobs
  BY JobsAssumption DEF AnyJob
<1>3. AnyPlan \in Plans[AnyJob] /\ AnyPlan \in Plan
  BY <1>2, PlansAssumption DEF AnyPlan
<1>4. RunTypes
  BY <1>2, <1>3, NewSnapshots, StepsAssumption DEF Init, RunTypes, HistState, PC
<1>5. Apart
  BY DEF Init, Apart, HasJob, Busy
<1>6. CompletedCoherent
  BY NewSnapshots DEF Init, CompletedCoherent
<1>7. ASSUME NEW w \in Workers PROVE Knows(w)
  <2>1. pc[w] = "idle" /\ kind[w] = "failed" /\ asked[w] = FALSE /\ plan[w] \in Plans[job[w]]
    BY <1>3 DEF Init
  <2> QED
    BY <2>1 DEF Knows, Position, StepsDone, StatusInHand, HistoryOpen, CancelKnown, Opening, Looping, Ending
<1> QED
  BY <1>1, <1>4, <1>5, <1>6, <1>7 DEF IInv, RunInv

\* It is inductive: action by action, in the lemmas above.
LEMMA NextInv == IInv /\ [Next]_vars => IInv'
<1> SUFFICES ASSUME IInv, [Next]_vars PROVE IInv'
  OBVIOUS
<1>1. CASE Next
  <2>1. PICK w \in Workers : StepOf(w)
    BY <1>1 DEF Next, StepOf
  <2>2. CacheTypeOK' /\ ChildrenOnly'
    BY <2>1, StepsCallCache, CacheTypes DEF IInv
  <2>3. RunInv
    BY DEF IInv
  <2>4. ASSUME Proceed(w) PROVE RunInv'
    <3>1. CASE \/ Prepare(w) \/ Discover(w) \/ SweepStart(w) \/ StepStart(w) \/ TouchHit(w) \/ StartPublish(w)
               \/ Publishing(w) \/ Quota(w) \/ Evict(w) \/ Unwind(w) \/ CleanupSweep(w) \/ CleanupQuota(w)
      BY <2>3, <3>1, MovingKeeps
    <3>2. CASE Cancelled(w) \/ CacheRaises(w) \/ Execute(w)
      BY <2>3, <3>2, RaisingKeeps
    <3>3. CASE Begin(w) \/ StepHit(w) \/ StepMiss(w) \/ StepDone(w) \/ Complete(w) \/ Fail(w)
      BY <2>3, <3>3, SavingKeeps
    <3>4. CASE BeginHistory(w) \/ Announce(w) \/ Progress(w) \/ CompleteHistory(w) \/ FailHistory(w)
      BY <2>3, <3>4, RecordingKeeps
    <3>5. CASE Return(w)
      BY <2>3, <3>5, LeavingKeeps
    <3> QED
      BY <2>4, <3>1, <3>2, <3>3, <3>4, <3>5 DEF Proceed
  <2>5. ASSUME PrepareRaises(w) \/ SweepRaises(w) \/ Cleanup(w) PROVE RunInv'
    BY <2>3, <2>5, MovingKeeps
  <2>6. ASSUME Cancel(w) PROVE RunInv'
    BY <2>3, <2>6, CancelKeeps
  <2>7. ASSUME Crash(w) PROVE RunInv'
    BY <2>3, <2>7, LeavingKeeps
  <2>8. ASSUME NEW j \in Jobs, NEW p \in Plans[j], Submit(w, j, p) PROVE RunInv'
    BY <2>3, <2>8, SubmitKeeps
  <2>9. ASSUME NEW j \in Jobs, NEW p \in Plans[j], SubmitRaises(w, j, p) PROVE RunInv'
    BY <2>3, <2>9, SubmitRaisesKeeps
  <2>10. RunInv'
    BY <2>1, <2>4, <2>5, <2>6, <2>7, <2>8, <2>9 DEF StepOf
  <2> QED
    BY <2>2, <2>10 DEF IInv
<1>2. CASE UNCHANGED vars
  <2> USE <1>2 DEF vars, cacheVars, diskVars, runVars, IInv, RunInv
  <2>1. CacheTypeOK' /\ ChildrenOnly'
    BY DEF CacheTypeOK, ChildrenOnly
  <2>2. RunTypes' /\ CompletedCoherent'
    BY DEF RunTypes, CompletedCoherent
  <2>3. Apart'
    BY DEF Apart, HasJob
  <2>4. \A w \in Workers : Knows(w)'
    BY DEF Knows, Position, StepsDone, StatusInHand, HistoryOpen, CancelKnown
  <2> QED
    BY <2>1, <2>2, <2>3, <2>4
<1> QED
  BY <1>1, <1>2

\* What each process knows of its job holds in every reachable state.
THEOREM Invariance == Spec => []IInv
  BY InitInv, NextInv, PTL DEF Spec

-----------------------------------------------------------------------------
(* What follows from it *)

\* Every variable of the runner and of the cache keeps its type.
THEOREM RunnerTypes == Spec => []TypeOK
<1>1. IInv => TypeOK
  BY DEF IInv, RunInv, RunTypes, TypeOK
<1> QED
  BY <1>1, Invariance, PTL

\* A snapshot that says completed names one chain of results, the keys of one
\* plan, for any number of processes, jobs, steps and plans (_mark_terminal and
\* the loop of run).
THEOREM CompletedMeansOneChain == Spec => []CompletedCoherent
<1>1. IInv => CompletedCoherent
  BY DEF IInv, RunInv
<1> QED
  BY <1>1, Invariance, PTL

\* Who writes a snapshot, and with which status.
LEMMA SnapshotWritten ==
  ASSUME RunInv, NEW w \in Workers, StepOf(w), NEW j \in Jobs, snap'[j] # snap[j]
  PROVE  \/ pc[w] = "begin" /\ job[w] = j /\ snap'[j].status = "running"
         \/ pc[w] \in Looping /\ job[w] = j /\ snap[j].status = "running" /\ snap'[j].status = "running"
         \/ pc[w] = "complete" /\ job[w] = j /\ snap[j].status = "running" /\ snap'[j].status = "completed"
         \/ pc[w] = "failing" /\ job[w] = j /\ snap'[j].status = kind[w]
         \/ snap[j].status = "absent" /\ snap'[j].status = "pending"
<1>1. /\ Knows(w) /\ mem[w] \in RecoverySnapshot /\ kind[w] \in {"failed", "cancelled"}
      /\ snap \in [Jobs -> RecoverySnapshot]
  BY InHand DEF RunInv, RunTypes
<1>2. ASSUME NEW m \in RecoverySnapshot, NEW a \in PC, NEW b \in PC, Save(w, m, a) \/ SaveRaises(w, m, b)
      PROVE  job[w] = j /\ snap'[j] = m
  BY <1>1, <1>2 DEF Save, SaveRaises
<1>3. CASE Begin(w)
  <2>1. Running(w) \in RecoverySnapshot /\ Running(w).status = "running"
    BY <1>1, StatusSet DEF Running, JobState
  <2> QED
    BY <1>2, <1>3, <2>1 DEF Begin, At, PC
<1>4. CASE StepHit(w) \/ StepMiss(w) \/ StepDone(w)
  <2>1. pc[w] \in Looping /\ at[w] \in Steps /\ Key(w) \in Keys /\ mem[w].status = "running" /\ snap[job[w]] = mem[w]
    BY <1>4, InHand DEF StepHit, StepMiss, StepDone, At, Looping, Knows, StatusInHand
  <2>2. PICK s \in {"cached", "running", "completed"} :
          LET m == WithStep(mem[w], at[w], s, Key(w)) IN
          \E a \in PC : Save(w, m, a) \/ SaveRaises(w, m, "failing")
    BY <1>4 DEF StepHit, StepMiss, StepDone, PC
  <2> DEFINE m == WithStep(mem[w], at[w], s, Key(w))
  <2>3. s \in StepState
    BY DEF StepState, JobState
  <2>4. m \in RecoverySnapshot /\ m.status = "running"
    BY <1>1, <2>1, <2>3, StepSet
  <2> HIDE DEF m
  <2>5. "failing" \in PC /\ \E a \in PC : Save(w, m, a) \/ SaveRaises(w, m, "failing")
    BY <2>2 DEF PC, m
  <2>6. job[w] = j /\ snap'[j] = m
    BY <1>2, <2>4, <2>5
  <2> QED
    BY <2>1, <2>4, <2>6
<1>5. CASE Complete(w)
  <2>1. Completed(w) \in RecoverySnapshot /\ Completed(w).status = "completed"
    BY <1>1, StatusSet DEF Completed, JobState
  <2>2. snap[job[w]].status = "running"
    BY <1>1, <1>5 DEF Complete, At, Knows, StatusInHand
  <2> QED
    BY <1>2, <1>5, <2>1, <2>2 DEF Complete, At, PC
<1>6. CASE Fail(w)
  <2> DEFINE m == MarkTerminal(mem[w], kind[w])
  <2>1. m \in RecoverySnapshot /\ m.status = kind[w]
    BY <1>1, TerminalSet DEF JobState
  <2>2. Save(w, m, "failHistory") \/ SaveRaises(w, m, "unwind")
    BY <1>6 DEF Fail
  <2> HIDE DEF m
  <2> QED
    BY <1>2, <1>6, <2>1, <2>2 DEF Fail, At, PC
<1>7. ASSUME NEW i \in Jobs, NEW p \in Plans[i], Submit(w, i, p) \/ SubmitRaises(w, i, p)
      PROVE  snap[j].status = "absent" /\ snap'[j].status = "pending"
  <2>1. p.sig \in Sigs
    BY PlansAssumption DEF Plan
  <2>2. Create(p.sig).status = "pending"
    BY <2>1, NewSnapshots
  <2>3. CASE Submit(w, i, p)
    <3>1. snap' = [snap EXCEPT ![i] = IF snap[i].status = "absent" THEN Create(p.sig) ELSE snap[i]]
      BY <2>3 DEF Submit
    <3> QED
      BY <1>1, <2>2, <3>1
  <2>4. CASE SubmitRaises(w, i, p)
    <3>1. snap[i].status = "absent" /\ (snap' = snap \/ snap' = [snap EXCEPT ![i] = Create(p.sig)])
      BY <2>4 DEF SubmitRaises
    <3> QED
      BY <1>1, <2>2, <3>1
  <2> QED
    BY <1>7, <2>3, <2>4
<1>8. CASE \/ Prepare(w) \/ Discover(w) \/ SweepStart(w) \/ StepStart(w) \/ TouchHit(w) \/ StartPublish(w)
           \/ Publishing(w) \/ Quota(w) \/ Evict(w) \/ Unwind(w) \/ CleanupSweep(w) \/ CleanupQuota(w)
           \/ PrepareRaises(w) \/ SweepRaises(w) \/ Cleanup(w)
  BY <1>8 DEF Prepare, Discover, SweepStart, StepStart, TouchHit, StartPublish, Publishing, Quota, Evict, Unwind,
      CleanupSweep, CleanupQuota, SweepRaises, PrepareRaises, Cleanup, diskVars
<1>9. CASE \/ Cancelled(w) \/ CacheRaises(w) \/ Execute(w) \/ BeginHistory(w) \/ Announce(w) \/ Progress(w)
           \/ CompleteHistory(w) \/ FailHistory(w) \/ Return(w) \/ Cancel(w) \/ Crash(w)
  BY <1>9 DEF Cancelled, CacheRaises, Execute, BeginHistory, Announce, Progress, CompleteHistory, FailHistory,
      Return, Cancel, Crash, diskVars
<1> QED
  BY <1>3, <1>4, <1>5, <1>6, <1>7, <1>8, <1>9 DEF StepOf, Proceed

\* Who writes a row of the history, and with which status.
LEMMA HistoryWritten ==
  ASSUME RunInv, NEW w \in Workers, StepOf(w), NEW j \in Jobs, hist'[j] # hist[j], hist'[j] # "running"
  PROVE  snap[j].status = hist'[j]
<1>1. Knows(w) /\ hist \in [Jobs -> HistState]
  BY InHand DEF RunInv, RunTypes
<1>2. ASSUME NEW h, NEW l, Record(w, h, l)
      PROVE  job[w] = j /\ hist'[j] = h
  BY <1>1, <1>2 DEF Record
<1>3. CASE BeginHistory(w) \/ Announce(w) \/ Progress(w)
  BY <1>2, <1>3 DEF BeginHistory, Announce, Progress, RecordRaises
<1>4. CASE CompleteHistory(w)
  <2>1. mem[w].status = "completed" /\ snap[job[w]] = mem[w]
    BY <1>1, <1>4 DEF CompleteHistory, At, Knows, StatusInHand
  <2> QED
    BY <1>2, <1>4, <2>1 DEF CompleteHistory, RecordRaises
<1>5. CASE FailHistory(w)
  <2>1. snap[job[w]] = mem[w]
    BY <1>1, <1>5 DEF FailHistory, At, Knows, StatusInHand
  <2> QED
    BY <1>2, <1>5, <2>1 DEF FailHistory, RecordRaises
<1>6. CASE Begin(w) \/ StepHit(w) \/ StepMiss(w) \/ StepDone(w) \/ Complete(w) \/ Fail(w)
  BY <1>6 DEF Begin, StepHit, StepMiss, StepDone, Complete, Fail, Save, SaveRaises
<1>7. CASE \/ Prepare(w) \/ Discover(w) \/ SweepStart(w) \/ StepStart(w) \/ TouchHit(w) \/ StartPublish(w)
           \/ Publishing(w) \/ Quota(w) \/ Evict(w) \/ Unwind(w) \/ CleanupSweep(w) \/ CleanupQuota(w)
           \/ PrepareRaises(w) \/ SweepRaises(w) \/ Cleanup(w)
  BY <1>7 DEF Prepare, Discover, SweepStart, StepStart, TouchHit, StartPublish, Publishing, Quota, Evict, Unwind,
      CleanupSweep, CleanupQuota, SweepRaises, PrepareRaises, Cleanup, diskVars
<1>8. CASE Cancelled(w) \/ CacheRaises(w) \/ Execute(w) \/ Return(w) \/ Cancel(w) \/ Crash(w)
  BY <1>8 DEF Cancelled, CacheRaises, Execute, Return, Cancel, Crash, diskVars
<1>9. ASSUME NEW i \in Jobs, NEW p \in Plans[i], Submit(w, i, p) \/ SubmitRaises(w, i, p)
      PROVE  hist' = hist
  BY <1>9 DEF Submit, SubmitRaises
<1> QED
  BY <1>3, <1>4, <1>5, <1>6, <1>7, <1>8, <1>9 DEF StepOf, Proceed

\* The durable records tell what happened, for any number of processes, jobs
\* and steps and whatever fails between two of them: a cancellation in time is
\* honoured, only a cancelled run is recorded as cancelled, the history never
\* runs ahead of the snapshot, and a job both stores call complete is reopened
\* by a new run only (the handlers of run).
THEOREM RecordsTellWhatHappened == Spec => RecordsTrue
<1>1. IInv => CancelHonoured
  BY DEF IInv, RunInv, Knows, CancelKnown, CancelHonoured, Ending
<1>2. ASSUME RunInv, Next, NEW j \in Jobs
      PROVE  /\ snap'[j].status = "cancelled" /\ snap[j].status # "cancelled" =>
                  \E w \in Workers : job[w] = j /\ pc[w] = "failing" /\ token[w]
             /\ hist'[j] # hist[j] /\ hist'[j] # "running" => snap[j].status = hist'[j]
             /\ snap[j].status = "completed" /\ hist[j] = "completed" /\ snap'[j] # snap[j] =>
                  \E w \in Workers : job[w] = j /\ pc[w] = "begin"
  <2>1. PICK w \in Workers : StepOf(w)
    BY <1>2 DEF Next, StepOf
  <2>2. kind[w] = "cancelled" => token[w]
    BY <1>2, InHand DEF Knows, CancelKnown
  <2>3. pc[w] = "failing" => hist[job[w]] # "completed"
    BY <1>2, InHand DEF Knows, HistoryOpen
  <2>4. snap'[j].status = "cancelled" /\ snap[j].status # "cancelled" =>
          job[w] = j /\ pc[w] = "failing" /\ token[w]
    BY <1>2, <2>1, <2>2, SnapshotWritten
  <2>5. hist'[j] # hist[j] /\ hist'[j] # "running" => snap[j].status = hist'[j]
    BY <1>2, <2>1, HistoryWritten
  <2>6. snap[j].status = "completed" /\ hist[j] = "completed" /\ snap'[j] # snap[j] => job[w] = j /\ pc[w] = "begin"
    BY <1>2, <2>1, <2>3, SnapshotWritten
  <2> QED
    BY <2>4, <2>5, <2>6
<1>3. IInv /\ [Next]_vars =>
        [\A j \in Jobs :
           snap'[j].status = "cancelled" /\ snap[j].status # "cancelled" =>
             \E w \in Workers : job[w] = j /\ pc[w] = "failing" /\ token[w]]_vars
  BY <1>2 DEF IInv
<1>4. IInv /\ [Next]_vars =>
        [\A j \in Jobs :
           hist'[j] # hist[j] /\ hist'[j] # "running" => snap[j].status = hist'[j]]_vars
  BY <1>2 DEF IInv
<1>5. IInv /\ [Next]_vars =>
        [\A j \in Jobs :
           snap[j].status = "completed" /\ hist[j] = "completed" /\ snap'[j] # snap[j] =>
             \E w \in Workers : job[w] = j /\ pc[w] = "begin"]_vars
  BY <1>2 DEF IInv
<1> QED
  BY <1>1, <1>3, <1>4, <1>5, Invariance, PTL
  DEF Spec, RecordsTrue, CancelledWasAsked, HistoryFollows, CompletedStays

-----------------------------------------------------------------------------
(* The calls of the cache *)


Calling == {"looked", "announce", "execute", "check", "publish"}
Resting == PC \ (Calling \cup {"evict", "cleanEvict", "failing"})

\* Where a process may stand inside a call of the cache, and about which key.
CallFits(w) ==
  /\ pc[w] = "looked" => stage[w] \in {"touchHit", "hit", "miss", "error"}
  /\ pc[w] \in {"announce", "execute", "check"} => stage[w] = "miss"
  /\ pc[w] = "publish" =>
       stage[w] \in {"copy", "manifest", "replace", "verify", "touchDone", "done", "error"}
  /\ pc[w] \in {"evict", "cleanEvict"} => stage[w] \in {"quota", "remove"}
  /\ pc[w] = "failing" => stage[w] \in {"idle", "miss"}
  /\ pc[w] \in Resting => stage[w] = "idle"
  /\ pc[w] \in Calling => target[w] = Key(w)

-----------------------------------------------------------------------------
(* A call belongs to its process *)

\* A call of the cache leaves the calls of the other processes alone.
LEMMA CallsAreOwn ==
  ASSUME CacheTypeOK, NEW w \in Workers, CacheCall(w), NEW u \in Workers, u # w
  PROVE  UNCHANGED <<stage[u], target[u], todo[u], victims[u], total[u]>>
<1> USE DEF CacheTypeOK, Goto, SetTemp, quotaVars, EndCall, EndQuota, cacheRest
<1>1. CASE (\E k \in Keys : Lookup(w, k)) \/ Touch(w) \/ TouchFails(w) \/ Sweep(w)
  BY <1>1 DEF Lookup, Touch, TouchFails, Sweep
<1>2. CASE PublishBegin(w) \/ PublishMkdirFails(w) \/ PublishCopy(w) \/ PublishManifest(w) \/ PublishReplace(w) \/ PublishVerify(w)
           \/ PublishFails(w)
  BY <1>2 DEF PublishBegin, PublishMkdirFails, PublishCopy, PublishManifest, PublishReplace, PublishVerify, PublishFails,
      PublishRaises, Renames, RenameRefused
<1>3. CASE QuotaNext(w)
  BY <1>3 DEF QuotaNext
<1>4. CASE RemoveChild(w)
  BY <1>4 DEF RemoveChild
<1>5. CASE RemoveDir(w)
  BY <1>5 DEF RemoveDir
<1>6. CASE RemoveLocked(w) \/ QuotaDone(w) \/ CacheCrash(w)
  BY <1>6 DEF RemoveLocked, QuotaDone, CacheCrash
<1>7. CASE \E P \in SUBSET Keys : QuotaScan(w, P)
  BY <1>7 DEF QuotaScan
<1>8. CASE EndCall(w) /\ (Inject \/ UNCHANGED events) /\ UNCHANGED cacheRest
  BY <1>8
<1>9. CASE (Inject \/ UNCHANGED events) /\ UNCHANGED <<stage, target, cacheRest>>
  BY <1>9
<1> QED
  BY <1>1, <1>2, <1>3, <1>4, <1>5, <1>6, <1>7, <1>8, <1>9
  DEF CacheCall, PublishStep, PublishFault, QuotaStep

\* A step of one process leaves the local state of the others alone.
LEMMA StepsAreOwn ==
  ASSUME RunInv, NEW w \in Workers, StepOf(w), NEW u \in Workers, u # w
  PROVE  UNCHANGED <<pc[u], job[u], plan[u], at[u], mem[u], resumed[u]>>
<1> USE DEF Keep, Jump, diskVars, runVars, RunInv, RunTypes
<1>1. CASE \/ Prepare(w) \/ Discover(w) \/ SweepStart(w) \/ StepStart(w) \/ TouchHit(w) \/ StartPublish(w)
           \/ Publishing(w) \/ Quota(w) \/ Evict(w) \/ Unwind(w) \/ CleanupSweep(w) \/ CleanupQuota(w)
           \/ PrepareRaises(w) \/ SweepRaises(w) \/ Cleanup(w) \/ Cancel(w)
  BY <1>1 DEF Prepare, Discover, SweepStart, StepStart, TouchHit, StartPublish, Publishing, Quota, Evict, Unwind,
      CleanupSweep, CleanupQuota, SweepRaises, PrepareRaises, Cleanup, Cancel
<1>2. CASE Cancelled(w) \/ CacheRaises(w) \/ Execute(w)
  BY <1>2 DEF Cancelled, CacheRaises, Execute, Raise
<1>3. CASE Begin(w) \/ StepHit(w) \/ StepMiss(w) \/ StepDone(w) \/ Complete(w) \/ Fail(w)
  <2>1. UNCHANGED <<job, plan, at, resumed>>
    BY <1>3 DEF Begin, StepHit, StepMiss, StepDone, Complete, Fail
  <2>2. \E m, l : mem' = [mem EXCEPT ![w] = m] /\ pc' = [pc EXCEPT ![w] = l]
    BY <1>3 DEF Begin, StepHit, StepMiss, StepDone, Complete, Fail, Save, SaveRaises
  <2> QED
    BY <2>1, <2>2
<1>4. CASE BeginHistory(w) \/ Announce(w) \/ Progress(w) \/ CompleteHistory(w) \/ FailHistory(w)
  BY <1>4 DEF BeginHistory, Announce, Progress, CompleteHistory, FailHistory, Record, RecordRaises
<1>5. CASE Return(w) \/ Crash(w)
  BY <1>5 DEF Return, Crash, Leave
<1>6. ASSUME NEW j \in Jobs, NEW p \in Plans[j], Submit(w, j, p) \/ SubmitRaises(w, j, p)
      PROVE  UNCHANGED <<pc[u], job[u], plan[u], at[u], mem[u], resumed[u]>>
  BY <1>6 DEF Submit, SubmitRaises
<1> QED
  BY <1>1, <1>2, <1>3, <1>4, <1>5, <1>6 DEF StepOf, Proceed

\* The calls of the cache fit the steps the processes are at.
AllFit == \A w \in Workers : CallFits(w)

\* A step of another process leaves a call where it is.
LEMMA OthersFit ==
  ASSUME IInv, AllFit, NEW w \in Workers, StepOf(w), NEW u \in Workers, u # w
  PROVE  CallFits(u)'
<1>1. UNCHANGED <<pc[u], plan[u], at[u]>>
  BY StepsAreOwn DEF IInv
<1>2. UNCHANGED <<stage[u], target[u]>>
  BY StepsCallCache, CallsAreOwn DEF IInv
<1>3. CallFits(u)
  BY DEF AllFit
<1> QED
  BY <1>1, <1>2, <1>3 DEF CallFits, Key

\* A step of its own moves the call and the process together.
LEMMA OwnFits ==
  ASSUME IInv, AllFit, NEW w \in Workers, StepOf(w)
  PROVE  CallFits(w)'
<1> USE DEF At, Keep, Jump, diskVars, Goto, EndCall, Calling, Resting, PC
<1>1. /\ CallFits(w) /\ pc[w] \in PC
      /\ pc \in [Workers -> PC] /\ stage \in [Workers -> Stage] /\ target \in [Workers -> Keys \cup {NoKey}]
  BY DEF AllFit, IInv, RunInv, RunTypes, CacheTypeOK
<1>2. CASE \/ Prepare(w) \/ Discover(w) \/ SweepStart(w) \/ Unwind(w) \/ CleanupSweep(w) \/ PrepareRaises(w) \/ SweepRaises(w)
           \/ Cleanup(w)
  BY <1>1, <1>2 DEF Prepare, Discover, SweepStart, Unwind, CleanupSweep, SweepRaises, PrepareRaises, Cleanup,
      SweepBoth, Sweep, cacheVars, CallFits
<1>3. CASE StepStart(w)
  BY <1>1, <1>3 DEF StepStart, Lookup, CallFits, Key
<1>4. CASE TouchHit(w)
  BY <1>1, <1>4 DEF TouchHit, Touch, TouchFails, Touched, CallFits, Key
<1>5. CASE StartPublish(w)
  BY <1>1, <1>5 DEF StartPublish, PublishBegin, PublishMkdirFails, CallFits, Key
<1>6. CASE Publishing(w)
  <2>1. stage'[w] \in {"manifest", "replace", "verify", "touchDone", "done", "error"} /\ UNCHANGED target
    <3>1. CASE Touch(w) \/ TouchFails(w)
      BY <1>1, <1>6, <3>1 DEF Publishing, Touch, TouchFails, Touched, CallFits
    <3>2. CASE PublishCopy(w) \/ PublishManifest(w) \/ PublishReplace(w) \/ PublishVerify(w) \/ PublishFails(w)
      BY <1>1, <3>2 DEF PublishCopy, PublishManifest, PublishReplace, PublishVerify, PublishFails, PublishRaises,
          Renames, RenameRefused
    <3> QED
      BY <1>6, <3>1, <3>2 DEF Publishing, PublishStep, PublishFault
  <2> QED
    BY <1>1, <1>6, <2>1 DEF Publishing, CallFits, Key
<1>7. CASE Quota(w) \/ CleanupQuota(w)
  BY <1>1, <1>7 DEF Quota, CleanupQuota, QuotaScan, CallFits
<1>8. CASE Evict(w)
  <2>1. stage'[w] \in {"quota", "remove", "idle"}
    <3>1. CASE QuotaNext(w) \/ RemoveDir(w)
      BY <1>1, <3>1 DEF QuotaNext, RemoveDir, EndQuota
    <3>2. CASE RemoveChild(w)
      BY <1>1, <3>2 DEF RemoveChild, EndQuota
    <3>3. CASE QuotaDone(w) \/ RemoveLocked(w)
      BY <1>1, <3>3 DEF QuotaDone, RemoveLocked, EndQuota
    <3> QED
      BY <1>8, <3>1, <3>2, <3>3 DEF Evict, QuotaStep
  <2>2. pc[w] \in {"evict", "cleanEvict"}
        /\ pc'[w] = IF stage'[w] # "idle" THEN pc[w] ELSE IF pc[w] = "evict" THEN "unwind" ELSE "return"
    BY <1>1, <1>8 DEF Evict
  <2> QED
    BY <2>1, <2>2 DEF CallFits
<1>9. CASE Cancelled(w) \/ CacheRaises(w)
  BY <1>1, <1>9 DEF Cancelled, CacheRaises, Raise, Acknowledge, CallFits
<1>10. CASE Execute(w)
  BY <1>1, <1>10 DEF Execute, Raise, CallFits, Key
<1>11. CASE Begin(w) \/ Complete(w)
  BY <1>1, <1>11 DEF Begin, Complete, Save, SaveRaises, CallFits
<1>12. CASE StepMiss(w)
  BY <1>1, <1>12 DEF StepMiss, Save, SaveRaises, CallFits, Key
<1>13. CASE StepHit(w) \/ StepDone(w) \/ Fail(w)
  BY <1>1, <1>13 DEF StepHit, StepDone, Fail, Acknowledge, Save, SaveRaises, CallFits
<1>14. CASE BeginHistory(w) \/ CompleteHistory(w) \/ FailHistory(w)
  BY <1>1, <1>14 DEF BeginHistory, CompleteHistory, FailHistory, Record, RecordRaises, CallFits
<1>15. CASE Announce(w)
  BY <1>1, <1>15 DEF Announce, Record, RecordRaises, CallFits, Key
<1>16. CASE Progress(w)
  BY <1>1, <1>16 DEF Progress, Record, RecordRaises, CallFits
<1>17. CASE Return(w)
  BY <1>1, <1>17 DEF Return, Leave, CallFits, cacheVars
<1>18. CASE Crash(w)
  BY <1>1, <1>18 DEF Crash, Leave, CacheCrash, EndQuota, CallFits
<1>19. CASE Cancel(w)
  BY <1>1, <1>19 DEF Cancel, CallFits, Key
<1>20. ASSUME NEW j \in Jobs, NEW p \in Plans[j], Submit(w, j, p) \/ SubmitRaises(w, j, p)
       PROVE  CallFits(w)'
  BY <1>1, <1>20 DEF Submit, SubmitRaises, CallFits, cacheVars, runVars
<1> QED
  BY <1>2, <1>3, <1>4, <1>5, <1>6, <1>7, <1>8, <1>9, <1>10, <1>11, <1>12, <1>13, <1>14, <1>15, <1>16, <1>17,
     <1>18, <1>19, <1>20 DEF StepOf, Proceed

\* So the calls fit in every reachable state.
THEOREM CallsFit == Spec => [](IInv /\ AllFit)
<1>1. Init => AllFit
  BY DEF Init, CacheInit, AllFit, CallFits, Calling, Resting
<1>2. IInv /\ AllFit /\ [Next]_vars => AllFit'
  <2> SUFFICES ASSUME IInv, AllFit, [Next]_vars PROVE AllFit'
    OBVIOUS
  <2>1. CASE UNCHANGED vars
    BY <2>1 DEF vars, cacheVars, runVars, AllFit, CallFits, Key
  <2>2. ASSUME NEW w \in Workers, StepOf(w) PROVE AllFit'
    BY <2>2, OthersFit, OwnFits DEF AllFit
  <2> QED
    BY <2>1, <2>2 DEF Next, StepOf
<1> QED
  BY <1>1, <1>2, InitInv, NextInv, PTL DEF Spec

-----------------------------------------------------------------------------
(* While the quota has room *)

\* The limit is never reached, because it has room for every key.
Room == Cardinality(Keys) <= Limit

\* The results a snapshot calls done are in the cache, whole.
Kept(s) == \A i \in Steps : s.steps[i].status \in Done => s.steps[i].key \in Keys /\ Valid(s.steps[i].key)

\* No entry is being removed, or will be.
Spared(w) == stage[w] # "remove" /\ (stage[w] = "quota" => total[w] <= Limit)

\* A call that has found or published its entry finds it there.
FoundWhole(w) == stage[w] \in {"touchHit", "hit", "touchDone", "done"} => Valid(target[w])

\* A step that is a miss is not one the snapshot calls done with this key.
MissIsNew(w) ==
  pc[w] = "looked" /\ stage[w] = "miss" =>
    ~ (mem[w].steps[at[w]].status \in Done /\ mem[w].steps[at[w]].key = Key(w))

ResultsKept ==
  /\ \A j \in Jobs : Kept(snap[j])
  /\ \A w \in Workers : Kept(mem[w]) /\ Spared(w) /\ FoundWhole(w) /\ MissIsNew(w)

\* A whole entry stays whole: the rewrite of a manifest and the rename of a
\* publication never take a part away.
LEMMA ValidStays ==
  ASSUME CacheTypeOK, NEW w \in Workers, Spared(w), CacheCall(w), NEW k \in Keys, Valid(k)
  PROVE  Valid(k)'
<1> USE DEF CacheTypeOK, Goto, SetTemp, Valid, Whole, Part
<1>1. CASE Touch(w)
  BY <1>1 DEF Touch
<1>2. CASE PublishReplace(w)
  BY <1>2 DEF PublishReplace, Renames, RenameRefused
<1>3. CASE QuotaNext(w) \/ QuotaDone(w) \/ RemoveLocked(w) \/ CacheCrash(w)
  BY <1>3 DEF QuotaNext, QuotaDone, RemoveLocked, CacheCrash
<1>4. CASE RemoveChild(w) \/ RemoveDir(w)
  BY <1>4 DEF RemoveChild, RemoveDir, Spared
<1>5. CASE (\E i \in Keys : Lookup(w, i)) \/ TouchFails(w) \/ Sweep(w) \/ \E P \in SUBSET Keys : QuotaScan(w, P)
  BY <1>5 DEF Lookup, TouchFails, Sweep, QuotaScan
<1>6. CASE PublishBegin(w) \/ PublishMkdirFails(w) \/ PublishCopy(w) \/ PublishManifest(w) \/ PublishVerify(w) \/ PublishFails(w)
  BY <1>6 DEF PublishBegin, PublishMkdirFails, PublishCopy, PublishManifest, PublishVerify, PublishFails
<1>7. CASE UNCHANGED cacheRest
  BY <1>7 DEF cacheRest
<1> QED
  BY <1>1, <1>2, <1>3, <1>4, <1>5, <1>6, <1>7 DEF CacheCall, PublishStep, PublishFault, QuotaStep

\* With room for every key, no quota finds the cache too large.
LEMMA CallsSpare ==
  ASSUME Room, CacheTypeOK, NEW w \in Workers, Spared(w), CacheCall(w)
  PROVE  Spared(w)'
<1> USE DEF CacheTypeOK, Goto, Spared, EndCall, EndQuota, quotaVars, cacheRest
<1>1. Cardinality(Present) \in Nat /\ Cardinality(Present) <= Cardinality(Keys) /\ Cardinality(Keys) \in Nat
  BY WorkersAssumption, FS_Subset, FS_CardinalityType DEF Present
<1>2. CASE \E P \in SUBSET Keys : QuotaScan(w, P)
  BY <1>1, <1>2, LimitAssumption DEF QuotaScan, Room
<1>3. CASE QuotaNext(w)
  BY <1>3, LimitAssumption DEF QuotaNext, QuotaOver
<1>4. CASE RemoveChild(w) \/ RemoveDir(w)
  BY <1>4 DEF RemoveChild, RemoveDir
<1>5. CASE QuotaDone(w) \/ RemoveLocked(w) \/ CacheCrash(w)
  BY <1>5 DEF QuotaDone, RemoveLocked, CacheCrash
<1>6. CASE (\E i \in Keys : Lookup(w, i)) \/ Sweep(w)
  BY <1>6 DEF Lookup, Sweep
<1>7. CASE Touch(w) \/ TouchFails(w)
  <2>1. Touched[stage[w]] \in {"hit", "done"}
    BY <1>7 DEF Touch, TouchFails, Touched
  <2> QED
    BY <1>7, <2>1 DEF Touch, TouchFails
<1>8. CASE PublishBegin(w) \/ PublishMkdirFails(w) \/ PublishCopy(w) \/ PublishManifest(w) \/ PublishReplace(w) \/ PublishVerify(w)
           \/ PublishFails(w)
  BY <1>8 DEF PublishBegin, PublishMkdirFails, PublishCopy, PublishManifest, PublishReplace, PublishVerify, PublishFails,
      PublishRaises, Renames, RenameRefused
<1>9. CASE EndCall(w) /\ UNCHANGED cacheRest
  BY <1>9
<1>10. CASE UNCHANGED <<stage, target, cacheRest>>
  BY <1>10
<1> QED
  BY <1>2, <1>3, <1>4, <1>5, <1>6, <1>7, <1>8, <1>9, <1>10 DEF CacheCall, PublishStep, PublishFault, QuotaStep

\* What a call finds or publishes it has seen whole.
LEMMA CallsFindWhole ==
  ASSUME CacheTypeOK, NEW w \in Workers, Spared(w), FoundWhole(w), CacheCall(w)
  PROVE  FoundWhole(w)'
<1> USE DEF CacheTypeOK, Goto, SetTemp, FoundWhole, Valid, EndCall, EndQuota, cacheRest
<1>1. CASE \E k \in Keys : Lookup(w, k)
  BY <1>1 DEF Lookup
<1>2. CASE Touch(w)
  <2>1. Valid(target[w]) /\ UNCHANGED target
    BY <1>2 DEF Touch, Touched
  <2> QED
    BY <2>1, <1>2 DEF Touch, Whole, Part
<1>3. CASE TouchFails(w)
  BY <1>3 DEF TouchFails, Touched
<1>4. CASE PublishBegin(w) \/ PublishMkdirFails(w) \/ PublishCopy(w) \/ PublishManifest(w) \/ PublishVerify(w) \/ PublishFails(w)
  BY <1>4 DEF PublishBegin, PublishMkdirFails, PublishCopy, PublishManifest, PublishVerify, PublishFails, PublishRaises
<1>5. CASE PublishReplace(w)
  BY <1>5 DEF PublishReplace, Renames, RenameRefused, PublishRaises
<1>6. CASE Sweep(w) \/ \E P \in SUBSET Keys : QuotaScan(w, P)
  BY <1>6 DEF Sweep, QuotaScan
<1>7. CASE QuotaNext(w) \/ QuotaDone(w) \/ RemoveLocked(w) \/ CacheCrash(w)
  BY <1>7 DEF QuotaNext, QuotaDone, RemoveLocked, CacheCrash
<1>8. CASE RemoveChild(w) \/ RemoveDir(w)
  BY <1>8 DEF RemoveChild, RemoveDir, Spared
<1>9. CASE EndCall(w) /\ UNCHANGED cacheRest
  BY <1>9
<1>10. CASE UNCHANGED <<stage, target, cacheRest>>
  BY <1>10
<1> QED
  BY <1>1, <1>2, <1>3, <1>4, <1>5, <1>6, <1>7, <1>8, <1>9, <1>10
  DEF CacheCall, PublishStep, PublishFault, QuotaStep

\* The snapshot a step writes calls done what its process has just found or
\* published, and what the snapshot before it called done.
LEMMA WritesKept ==
  ASSUME IInv, AllFit, ResultsKept, NEW w \in Workers, StepOf(w)
  PROVE  \E m \in RecoverySnapshot :
           /\ Kept(m)
           /\ mem' = mem \/ mem' = [mem EXCEPT ![w] = m]
           /\ snap' = snap \/ \E j \in Jobs : snap' = [snap EXCEPT ![j] = m]
<1> DEFINE Writes(m) == /\ Kept(m)
                        /\ mem' = mem \/ mem' = [mem EXCEPT ![w] = m]
                        /\ snap' = snap \/ \E j \in Jobs : snap' = [snap EXCEPT ![j] = m]
<1>1. /\ Knows(w) /\ mem[w] \in RecoverySnapshot /\ kind[w] \in {"failed", "cancelled"} /\ job[w] \in Jobs
      /\ Kept(mem[w]) /\ CallFits(w) /\ FoundWhole(w) /\ RunInv
  BY InHand DEF IInv, ResultsKept, AllFit
<1>2. ASSUME NEW m \in RecoverySnapshot, Kept(m),
             (\E l : Save(w, m, l)) \/ (\E l : SaveRaises(w, m, l))
      PROVE  Writes(m)
  BY <1>1, <1>2 DEF Save, SaveRaises
<1>3. NoSnapshot \in RecoverySnapshot /\ Kept(NoSnapshot) /\ \A sig \in Sigs : Kept(Create(sig))
  BY NewSnapshots DEF NoSnapshot, Create, PendingSteps, Kept, Done
<1> HIDE DEF Writes
<1>4. CASE Begin(w)
  <2>1. Running(w) \in RecoverySnapshot /\ Kept(Running(w))
    BY <1>1, StatusSet DEF Running, Kept, JobState
  <2> QED
    BY <1>2, <1>4, <2>1 DEF Begin, Writes
<1>5. CASE StepHit(w) \/ StepMiss(w) \/ StepDone(w)
  <2>1. pc[w] \in Looping /\ at[w] \in Steps /\ Key(w) \in Keys
    BY <1>1, <1>5, InHand DEF StepHit, StepMiss, StepDone, At, Looping
  <2>2. PICK s \in {"cached", "running", "completed"} :
          /\ LET m == WithStep(mem[w], at[w], s, Key(w)) IN
             (\E l : Save(w, m, l)) \/ (\E l : SaveRaises(w, m, l))
          /\ s \in Done => Valid(Key(w))
    BY <1>1, <1>5 DEF StepHit, StepMiss, StepDone, At, Acknowledge, CallFits, Calling, FoundWhole, Done
  <2> DEFINE m == WithStep(mem[w], at[w], s, Key(w))
  <2>3. s \in StepState
    BY DEF StepState, JobState
  <2>4. /\ m \in RecoverySnapshot /\ m.steps[at[w]].status = s /\ m.steps[at[w]].key = Key(w)
        /\ \A d \in Steps : d # at[w] => m.steps[d] = mem[w].steps[d]
    BY <1>1, <2>1, <2>3, StepSet
  <2>5. (\E l : Save(w, m, l)) \/ (\E l : SaveRaises(w, m, l))
    BY <2>2
  <2> HIDE DEF m
  <2>6. Kept(m)
    BY <1>1, <2>1, <2>2, <2>4 DEF Kept
  <2> QED
    BY <1>2, <2>4, <2>5, <2>6 DEF Writes
<1>6. CASE Complete(w)
  <2>1. Completed(w) \in RecoverySnapshot /\ Kept(Completed(w))
    BY <1>1, StatusSet DEF Completed, Kept, JobState
  <2> QED
    BY <1>2, <1>6, <2>1 DEF Complete, Writes
<1>7. CASE Fail(w)
  <2> DEFINE m == MarkTerminal(mem[w], kind[w])
  <2>1. m \in RecoverySnapshot
    BY <1>1, TerminalSet DEF JobState
  <2>2. \A i \in Steps : m.steps[i] = IF mem[w].steps[i].status = "running"
                                       THEN [mem[w].steps[i] EXCEPT !.status = kind[w]] ELSE mem[w].steps[i]
    BY <1>1 DEF MarkTerminal, RecoverySnapshot
  <2>3. \A i \in Steps : mem[w].steps[i].status = "running" =>
                          [mem[w].steps[i] EXCEPT !.status = kind[w]].status = kind[w]
    BY <1>1, SnapshotFields DEF StepSnapshot
  <2>4. Kept(m)
    BY <1>1, <2>2, <2>3 DEF Kept, Done
  <2>5. (\E l : Save(w, m, l)) \/ (\E l : SaveRaises(w, m, l))
    BY <1>7 DEF Fail
  <2> HIDE DEF m
  <2> QED
    BY <1>2, <2>1, <2>4, <2>5 DEF Writes
<1>8. ASSUME NEW i \in Jobs, NEW p \in Plans[i], Submit(w, i, p) \/ SubmitRaises(w, i, p)
      PROVE  \E m \in RecoverySnapshot : Writes(m)
  <2> DEFINE m == IF snap[i].status = "absent" THEN Create(p.sig) ELSE snap[i]
  <2>1. p.sig \in Sigs
    BY PlansAssumption DEF Plan
  <2>2. m \in RecoverySnapshot /\ Kept(m)
    BY <1>1, <1>3, <2>1, NewSnapshots DEF ResultsKept, RunInv, RunTypes
  <2>3. mem' = mem \/ mem' = [mem EXCEPT ![w] = m]
    BY <1>8 DEF Submit, SubmitRaises, runVars
  <2>4. snap' = snap \/ snap' = [snap EXCEPT ![i] = m]
    BY <1>8 DEF Submit, SubmitRaises
  <2> HIDE DEF m
  <2> QED
    BY <2>2, <2>3, <2>4 DEF Writes
<1>9. CASE Return(w) \/ Crash(w)
  BY <1>3, <1>9 DEF Return, Crash, Leave, diskVars, Writes
<1>10. ASSUME UNCHANGED <<mem, snap>> PROVE \E m \in RecoverySnapshot : Writes(m)
  BY <1>3, <1>10 DEF Writes
<1>11. CASE \/ Prepare(w) \/ Discover(w) \/ SweepStart(w) \/ StepStart(w) \/ TouchHit(w) \/ StartPublish(w)
            \/ Publishing(w) \/ Quota(w) \/ Evict(w) \/ Unwind(w) \/ CleanupSweep(w) \/ CleanupQuota(w)
            \/ PrepareRaises(w) \/ SweepRaises(w) \/ Cleanup(w)
  <2>1. UNCHANGED <<mem, snap>>
    BY <1>11 DEF Prepare, Discover, SweepStart, StepStart, TouchHit, StartPublish, Publishing, Quota, Evict, Unwind,
        CleanupSweep, CleanupQuota, SweepRaises, PrepareRaises, Cleanup, diskVars
  <2> QED
    BY <1>10, <2>1 DEF Writes
<1>12. CASE \/ Cancelled(w) \/ CacheRaises(w) \/ Execute(w) \/ BeginHistory(w) \/ Announce(w) \/ Progress(w)
            \/ CompleteHistory(w) \/ FailHistory(w) \/ Cancel(w)
  <2>1. UNCHANGED <<mem, snap>>
    BY <1>12 DEF Cancelled, CacheRaises, Execute, BeginHistory, Announce, Progress, CompleteHistory, FailHistory,
        Cancel, diskVars
  <2> QED
    BY <1>10, <2>1 DEF Writes
<1> QED
  BY <1>4, <1>5, <1>6, <1>7, <1>8, <1>9, <1>11, <1>12 DEF StepOf, Proceed, Writes

\* With room for every key the results stay, step by step.
LEMMA ResultsStay ==
  ASSUME Room, IInv, AllFit, ResultsKept, NEW w \in Workers, StepOf(w)
  PROVE  ResultsKept'
<1>1. CacheTypeOK /\ RunInv /\ CacheCall(w)
  BY StepsCallCache DEF IInv
<1>2. \A k \in Keys : Valid(k) => Valid(k)'
  BY <1>1, ValidStays DEF ResultsKept
<1>4. PICK m \in RecoverySnapshot :
           /\ Kept(m)
           /\ mem' = mem \/ mem' = [mem EXCEPT ![w] = m]
           /\ snap' = snap \/ \E j \in Jobs : snap' = [snap EXCEPT ![j] = m]
  BY WritesKept
<1>5. \A j \in Jobs : Kept(snap'[j])
  BY <1>1, <1>4 DEF RunInv, RunTypes, ResultsKept
<1>6. \A u \in Workers : Kept(mem'[u])
  BY <1>1, <1>4 DEF RunInv, RunTypes, ResultsKept
<1>7. (\A j \in Jobs : Kept(snap[j]))' /\ (\A u \in Workers : Kept(mem[u]))'
  BY <1>2, <1>5, <1>6 DEF Kept
<1>8. ASSUME NEW u \in Workers PROVE Spared(u)' /\ FoundWhole(u)'
  <2>1. CASE u = w
    BY <1>1, <2>1, CallsSpare, CallsFindWhole DEF ResultsKept
  <2>2. CASE u # w
    <3>1. UNCHANGED <<stage[u], target[u], total[u]>>
      BY <1>1, <2>2, CallsAreOwn
    <3>2. stage[u] \in {"touchHit", "hit", "touchDone", "done"} => target[u] \in Keys
      <4>1. stage[u] \in {"touchHit", "hit", "touchDone", "done"} => pc[u] \in {"looked", "publish"}
        BY <1>1 DEF AllFit, CallFits, Calling, Resting, RunInv, RunTypes
      <4>2. pc[u] \in {"looked", "publish"} => target[u] = Key(u) /\ Key(u) \in Keys
        BY <1>1, InHand DEF AllFit, CallFits, Calling, Looping
      <4> QED
        BY <4>1, <4>2
    <3>3. FoundWhole(u)'
      BY <1>2, <3>1, <3>2 DEF ResultsKept, FoundWhole
    <3> QED
      BY <3>1, <3>3 DEF ResultsKept, Spared
  <2> QED
    BY <2>1, <2>2
<1>9. ASSUME NEW u \in Workers PROVE MissIsNew(u)'
  <2>1. CASE u # w
    <3>1. UNCHANGED <<pc[u], plan[u], at[u], mem[u], stage[u]>>
      BY <1>1, <2>1, StepsAreOwn, CallsAreOwn
    <3> QED
      BY <3>1 DEF ResultsKept, MissIsNew, Key
  <2>2. CASE u = w /\ StepStart(w)
    <3>1. ~Valid(Key(w)) \/ stage'[w] # "miss"
      BY <1>1, <2>2 DEF StepStart, Lookup, Goto, CacheTypeOK
    <3>2. UNCHANGED <<plan, at, mem>>
      BY <2>2 DEF StepStart, Keep
    <3>3. at[w] \in Steps /\ Kept(mem[w])
      BY <1>1, <2>2, InHand DEF StepStart, At, Looping, ResultsKept
    <3> QED
      BY <2>2, <3>1, <3>2, <3>3 DEF MissIsNew, Kept, Key
  <2>3. CASE u = w /\ TouchHit(w)
    <3>1. stage'[w] # "miss"
      BY <1>1, <2>3 DEF TouchHit, Touch, TouchFails, Touched, Goto, CacheTypeOK
    <3> QED
      BY <2>3, <3>1 DEF MissIsNew
  <2>4. CASE u = w /\ Cancel(w)
    BY <2>4 DEF Cancel, MissIsNew, ResultsKept, Key
  <2>5. CASE u = w /\ \E j \in Jobs : \E p \in Plans[j] : SubmitRaises(w, j, p)
    BY <2>5 DEF SubmitRaises, At, runVars, MissIsNew
  <2>6. CASE u = w /\ ~(StepStart(w) \/ TouchHit(w) \/ Cancel(w)
                       \/ \E j \in Jobs : \E p \in Plans[j] : SubmitRaises(w, j, p))
    <3>1. pc'[w] # "looked"
      <4> USE <1>1 DEF RunInv, RunTypes, Jump
      <4>1. CASE \/ Prepare(w) \/ Discover(w) \/ SweepStart(w) \/ StartPublish(w)
                 \/ Publishing(w) \/ Quota(w) \/ Evict(w) \/ Unwind(w) \/ CleanupSweep(w) \/ CleanupQuota(w)
                 \/ PrepareRaises(w) \/ SweepRaises(w) \/ Cleanup(w)
        BY <4>1 DEF Prepare, Discover, SweepStart, StartPublish, Publishing, Quota, Evict, Unwind,
            CleanupSweep, CleanupQuota, SweepRaises, PrepareRaises, Cleanup, At
      <4>2. CASE Cancelled(w) \/ CacheRaises(w) \/ Execute(w)
        BY <4>2 DEF Cancelled, CacheRaises, Execute, Raise
      <4>3. CASE Begin(w) \/ StepHit(w) \/ StepMiss(w) \/ StepDone(w) \/ Complete(w) \/ Fail(w)
        BY <4>3 DEF Begin, StepHit, StepMiss, StepDone, Complete, Fail, Save, SaveRaises
      <4>4. CASE BeginHistory(w) \/ Announce(w) \/ Progress(w) \/ CompleteHistory(w) \/ FailHistory(w)
        BY <4>4 DEF BeginHistory, Announce, Progress, CompleteHistory, FailHistory, Record, RecordRaises
      <4>5. CASE Return(w) \/ Crash(w)
        BY <4>5 DEF Return, Crash, Leave
      <4>6. CASE \E j \in Jobs : \E p \in Plans[j] : Submit(w, j, p)
        BY <4>6 DEF Submit
      <4> QED
        BY <2>6, <4>1, <4>2, <4>3, <4>4, <4>5, <4>6 DEF StepOf, Proceed
    <3> QED
      BY <2>6, <3>1 DEF MissIsNew
  <2> QED
    BY <2>1, <2>2, <2>3, <2>4, <2>5, <2>6
<1> QED
  BY <1>7, <1>8, <1>9 DEF ResultsKept

\* A resumed job does not run again a step it had finished with the same
\* parameters, for any number of processes and jobs, while the quota has room
\* for every key ("if step 6 failed, steps 1-5 do not run again",
\* docs/architecture.md 1.3).
THEOREM FinishedStepsStay == ASSUME Room PROVE Spec => []NoRerun
<1>1. Init => ResultsKept
  <2>1. Kept(NoSnapshot)
    BY DEF NoSnapshot, PendingSteps, Kept, Done
  <2> QED
    BY <2>1 DEF Init, CacheInit, ResultsKept, Spared, FoundWhole, MissIsNew
<1>2. IInv /\ AllFit /\ ResultsKept /\ [Next]_vars => ResultsKept'
  <2> SUFFICES ASSUME IInv, AllFit, ResultsKept, [Next]_vars PROVE ResultsKept'
    OBVIOUS
  <2>1. CASE UNCHANGED vars
    BY <2>1 DEF vars, cacheVars, runVars, diskVars, quotaVars, ResultsKept, Kept, Spared, FoundWhole, MissIsNew, Key,
        Valid
  <2>2. CASE Next
    BY <2>2, ResultsStay DEF Next, StepOf
  <2> QED
    BY <2>1, <2>2
<1>3. ResultsKept => NoRerun
  BY DEF ResultsKept, MissIsNew, NoRerun
<1> QED
  BY <1>1, <1>2, <1>3, CallsFit, PTL DEF Spec

-----------------------------------------------------------------------------
(* A process alone *)

\* The window starts one engine, and an engine answers one request at a time.
Alone == \A u, w \in Workers : u = w

\* A publication under way has the parts it has written in its temporary, and
\* whatever was verified is still whole.
Builds(w) ==
  /\ stage[w] = "copy"     => temp[w] = {"dir"}
  /\ stage[w] = "manifest" => temp[w] = {"dir", "files"}
  /\ stage[w] = "replace"  => temp[w] = Whole
  /\ stage[w] \in {"touchHit", "hit", "verify", "touchDone", "done"} => Valid(target[w])

\* The results of the steps behind the process are there.
HoldsResults(w) ==
  /\ pc[w] = "progress" => Valid(Key(w))
  /\ HasJob(w) => \A i \in Steps : i < at[w] => Valid(plan[w].keys[i])

Protected(w) == IF pc[w] = "evict" THEN PlanKeys(w) ELSE {}

\* The quota knows what is on disk: each entry is protected, a candidate, or
\* the one it is removing.
Counts(w) ==
  /\ stage[w] \in {"quota", "remove"} =>
       total[w] = Cardinality(Present) /\ victims[w] \subseteq Present \ Protected(w)
  /\ stage[w] = "quota" => Present \subseteq victims[w] \cup Protected(w)
  /\ stage[w] = "remove" =>
       /\ target[w] \in Present \ (victims[w] \cup Protected(w))
       /\ Present \subseteq victims[w] \cup Protected(w) \cup {target[w]}
       /\ todo[w] = entry[target[w]] \ {"dir"}

AllLone == \A w \in Workers : Builds(w) /\ HoldsResults(w) /\ Counts(w)

LoneInv == IInv /\ AllFit /\ AllLone

\* The steps of a call, as Builds sees them.
LEMMA CallsBuild ==
  ASSUME LoneInv, NEW w \in Workers, CacheCall(w)
  PROVE  Builds(w)'
<1> USE DEF CacheTypeOK, Goto, SetTemp, Valid, EndCall, EndQuota, cacheRest, PublishRaises
<1>1. CacheTypeOK /\ Builds(w) /\ CallFits(w) /\ Counts(w)
  BY DEF LoneInv, IInv, AllFit, AllLone
<1>2. CASE \E k \in Keys : Lookup(w, k)
  BY <1>1, <1>2 DEF Lookup, Builds
<1>3. CASE Touch(w)
  <2>1. Valid(target[w]) /\ UNCHANGED target
    BY <1>1, <1>3 DEF Touch, Touched, Builds
  <2>2. stage'[w] \in {"hit", "done", "error"}
    BY <1>1, <1>3 DEF Touch, Touched
  <2> QED
    BY <1>1, <1>3, <2>1, <2>2 DEF Touch, Whole, Part, Builds
<1>4. CASE TouchFails(w)
  <2>1. stage'[w] \in {"hit", "done"}
    BY <1>1, <1>4 DEF TouchFails, Touched
  <2> QED
    BY <1>1, <1>4, <2>1 DEF TouchFails, Touched, Builds
<1>5. CASE PublishBegin(w) \/ PublishMkdirFails(w)
  BY <1>1, <1>5 DEF PublishBegin, PublishMkdirFails, Builds
<1>6. CASE PublishCopy(w)
  BY <1>1, <1>6 DEF PublishCopy, Builds
<1>7. CASE PublishManifest(w)
  BY <1>1, <1>7 DEF PublishManifest, Builds, Whole, Part
<1>8. CASE PublishReplace(w)
  <2>1. Renames(w) => entry'[target[w]] = temp[w] \/ target[w] \notin Keys
    BY <1>1 DEF Renames
  <2>2. target[w] \in Keys
    BY <1>1, <1>8, InHand DEF PublishReplace, CallFits, Calling, Resting, Looping, LoneInv, IInv
  <2> QED
    BY <1>1, <1>8, <2>1, <2>2 DEF PublishReplace, Renames, RenameRefused, Builds
<1>9. CASE PublishVerify(w) \/ PublishFails(w)
  BY <1>1, <1>9 DEF PublishVerify, PublishFails, Builds
<1>10. CASE Sweep(w) \/ \E P \in SUBSET Keys : QuotaScan(w, P)
  BY <1>1, <1>10 DEF Sweep, QuotaScan, Builds
<1>11. CASE QuotaNext(w) \/ QuotaDone(w) \/ RemoveLocked(w) \/ CacheCrash(w)
  BY <1>1, <1>11 DEF QuotaNext, QuotaDone, RemoveLocked, CacheCrash, Builds
<1>12. CASE RemoveChild(w) \/ RemoveDir(w)
  <2>1. stage'[w] \in {"remove", "quota", "idle"}
    BY <1>1, <1>12 DEF RemoveChild, RemoveDir
  <2> QED
    BY <2>1 DEF Builds
<1>13. CASE EndCall(w) /\ UNCHANGED cacheRest
  BY <1>1, <1>13 DEF Builds
<1>14. CASE UNCHANGED <<stage, target, cacheRest>>
  BY <1>1, <1>14 DEF Builds
<1> QED
  BY <1>2, <1>3, <1>4, <1>5, <1>6, <1>7, <1>8, <1>9, <1>10, <1>11, <1>12, <1>13, <1>14
  DEF CacheCall, PublishStep, PublishFault, QuotaStep

\* How the entries change: a whole one is renamed into place, or the quota
\* takes a part of the candidate it is removing.
LEMMA EntryChanges ==
  ASSUME LoneInv, NEW w \in Workers, CacheCall(w)
  PROVE  \/ entry' = entry
         \/ /\ stage[w] = "replace" /\ pc[w] = "publish" /\ target[w] \in Keys
            /\ ~Valid(target[w]) /\ entry' = [entry EXCEPT ![target[w]] = Whole]
         \/ /\ stage[w] = "remove" /\ pc[w] \in {"evict", "cleanEvict"}
            /\ target[w] \in Present \ Protected(w)
            /\ \E t \in SUBSET entry[target[w]] : t # Whole /\ entry' = [entry EXCEPT ![target[w]] = t]
<1> USE DEF CacheTypeOK, Goto, SetTemp, cacheRest, PublishRaises
<1>1. CacheTypeOK /\ Builds(w) /\ CallFits(w) /\ Counts(w) /\ pc[w] \in PC
  BY DEF LoneInv, IInv, AllFit, AllLone, RunInv, RunTypes
<1>2. CASE Touch(w)
  <2>1. Valid(target[w]) /\ stage[w] \in {"touchHit", "touchDone"}
    BY <1>1, <1>2 DEF Touch, Touched, Builds
  <2>2. entry' = entry
    BY <1>1, <1>2, <2>1 DEF Touch, Valid, Whole, Part
  <2> QED
    BY <2>2
<1>3. CASE PublishReplace(w)
  <2>1. stage[w] = "replace" /\ pc[w] = "publish" /\ temp[w] = Whole
    BY <1>1, <1>3 DEF PublishReplace, CallFits, Calling, Resting, Builds
  <2>2. target[w] \in Keys
    BY <1>1, <2>1, InHand DEF CallFits, Calling, Looping, LoneInv, IInv
  <2>3. Renames(w) => ~Valid(target[w])
    BY DEF Renames, Valid, Whole, Part
  <2> QED
    BY <1>3, <2>1, <2>2, <2>3 DEF PublishReplace, Renames, RenameRefused
<1>4. CASE RemoveChild(w) \/ RemoveDir(w)
  <2>1. stage[w] = "remove" /\ pc[w] \in {"evict", "cleanEvict"} /\ target[w] \in Present \ Protected(w)
    BY <1>1, <1>4 DEF RemoveChild, RemoveDir, CallFits, Calling, Resting, Counts
  <2>2. CASE RemoveChild(w)
    <3>1. PICK q \in Part : entry' = entry \/ (q \in entry[target[w]] /\ entry' = [entry EXCEPT ![target[w]] = @ \ {q}])
      BY <1>1, <2>2 DEF RemoveChild
    <3>2. entry[target[w]] \ {q} \in SUBSET entry[target[w]] /\ entry[target[w]] \ {q} # Whole
      BY DEF Whole
    <3> QED
      BY <2>1, <3>1, <3>2
  <2>3. CASE RemoveDir(w)
    <3>1. entry' = entry \/ entry' = [entry EXCEPT ![target[w]] = {}]
      BY <2>3 DEF RemoveDir
    <3>2. {} \in SUBSET entry[target[w]] /\ {} # Whole
      BY DEF Whole, Part
    <3> QED
      BY <2>1, <3>1, <3>2
  <2> QED
    BY <1>4, <2>2, <2>3
<1>5. CASE QuotaNext(w) \/ QuotaDone(w) \/ RemoveLocked(w) \/ CacheCrash(w)
  BY <1>5 DEF QuotaNext, QuotaDone, RemoveLocked, CacheCrash
<1>6. CASE (\E i \in Keys : Lookup(w, i)) \/ TouchFails(w) \/ Sweep(w) \/ \E P \in SUBSET Keys : QuotaScan(w, P)
  BY <1>6 DEF Lookup, TouchFails, Sweep, QuotaScan
<1>7. CASE PublishBegin(w) \/ PublishMkdirFails(w) \/ PublishCopy(w) \/ PublishManifest(w) \/ PublishVerify(w) \/ PublishFails(w)
  BY <1>7 DEF PublishBegin, PublishMkdirFails, PublishCopy, PublishManifest, PublishVerify, PublishFails
<1>8. CASE UNCHANGED cacheRest
  BY <1>8
<1> QED
  BY <1>2, <1>3, <1>4, <1>5, <1>6, <1>7, <1>8 DEF CacheCall, PublishStep, PublishFault, QuotaStep

\* So no result in hand is taken away: the quota of a run spares the keys of
\* its plan, and a cleanup has no run beside it.
LEMMA ResultsInHandStay ==
  ASSUME LoneInv, NEW w \in Workers, CacheCall(w), HasJob(w), NEW k \in PlanKeys(w), Valid(k)
  PROVE  Valid(k)'
<1>1. k \in Keys /\ entry \in [Keys -> Tree]
  BY InHand DEF PlanKeys, Plan, LoneInv, IInv, CacheTypeOK
<1>2. pc[w] # "cleanEvict"
  BY DEF HasJob, Busy
<1>3. pc[w] = "evict" => k \in Protected(w)
  BY DEF Protected
<1> QED
  BY <1>1, <1>2, <1>3, EntryChanges DEF Valid

\* The quota counts: one more candidate visited, one part or one entry gone.
LEMMA QuotaCounts ==
  ASSUME LoneInv, NEW w \in Workers, QuotaStep(w), UNCHANGED <<Protected(w)>>
  PROVE  Counts(w)'
<1> USE DEF CacheTypeOK, Goto, EndCall, EndQuota
<1>1. CacheTypeOK /\ Counts(w) /\ IsFiniteSet(Present) /\ Present \subseteq Keys
  BY WorkersAssumption, FS_Subset DEF LoneInv, IInv, AllLone, Present
<1>2. CASE QuotaNext(w)
  <2>1. PICK k \in victims[w] :
          /\ victims' = [victims EXCEPT ![w] = @ \ {k}] /\ target' = [target EXCEPT ![w] = k]
          /\ todo' = [todo EXCEPT ![w] = entry[k] \ {"dir"}]
    BY <1>2 DEF QuotaNext
  <2>2. victims'[w] = victims[w] \ {k} /\ target'[w] = k /\ todo'[w] = entry[k] \ {"dir"}
    BY <1>1, <2>1
  <2>3. UNCHANGED <<entry, total, Present>> /\ stage[w] = "quota" /\ stage'[w] = "remove"
    BY <1>1, <1>2 DEF QuotaNext, Present
  <2> QED
    BY <1>1, <2>2, <2>3 DEF Counts
<1>3. CASE RemoveChild(w)
  <2>1. stage[w] = "remove" /\ todo[w] = entry[target[w]] \ {"dir"} /\ target[w] \in Present
    BY <1>1, <1>3 DEF RemoveChild, Counts
  <2>2. PICK q \in todo[w] : /\ entry' = [entry EXCEPT ![target[w]] = @ \ {q}]
                             /\ todo' = [todo EXCEPT ![w] = @ \ {q}]
                             /\ UNCHANGED <<stage, target, victims, total>>
    BY <1>3, <2>1 DEF RemoveChild
  <2>3. target[w] \in Keys /\ "dir" \in entry[target[w]] /\ q # "dir"
    BY <1>1, <2>1 DEF Tree, Present
  <2>4. entry'[target[w]] = entry[target[w]] \ {q} /\ \A k \in Keys \ {target[w]} : entry'[k] = entry[k]
    BY <1>1, <2>2, <2>3
  <2>5. Present' = Present
    BY <2>3, <2>4 DEF Present
  <2>6. todo'[w] = entry'[target[w]] \ {"dir"}
    BY <1>1, <2>1, <2>2, <2>4
  <2> QED
    BY <1>1, <2>1, <2>2, <2>5, <2>6 DEF Counts
<1>4. CASE RemoveDir(w)
  <2>1. stage[w] = "remove" /\ entry[target[w]] = {"dir"} /\ target[w] \in Present /\ target[w] \in Keys
    BY <1>1, <1>4 DEF RemoveDir, Counts, Tree, Present
  <2>2. /\ entry' = [entry EXCEPT ![target[w]] = {}] /\ total' = [total EXCEPT ![w] = @ - 1]
        /\ stage'[w] = "quota" /\ UNCHANGED <<todo, target, victims>>
    BY <1>1, <1>4, <2>1 DEF RemoveDir
  <2>3. Present' = Present \ {target[w]}
    BY <1>1, <2>1, <2>2 DEF Present
  <2>4. Cardinality(Present') = Cardinality(Present) - 1
    <3>1. \A S : \A x \in S : IsFiniteSet(S) => Cardinality(S \ {x}) = Cardinality(S) - 1
      BY FS_RemoveElement
    <3>2. Cardinality(Present \ {target[w]}) = Cardinality(Present) - 1
      BY <1>1, <2>1, <3>1
    <3> QED
      BY <2>3, <3>2
  <2>5. total'[w] = total[w] - 1
    BY <1>1, <2>2
  <2> QED
    BY <1>1, <2>1, <2>2, <2>3, <2>4, <2>5 DEF Counts
<1>5. CASE QuotaDone(w)
  BY <1>1, <1>5 DEF QuotaDone, Counts
<1> QED
  BY <1>2, <1>3, <1>4, <1>5 DEF QuotaStep

\* A new scan knows what is on disk; until the next one nothing does.
LEMMA StepsCount ==
  ASSUME LoneInv, NEW w \in Workers, StepOf(w), CallFits(w)'
  PROVE  Counts(w)'
<1>1. /\ CacheTypeOK /\ RunInv /\ Counts(w) /\ CallFits(w) /\ pc[w] \in PC /\ pc \in [Workers -> PC]
      /\ plan[w] \in Plan
  BY DEF LoneInv, IInv, AllFit, AllLone, RunInv, RunTypes
<1>2. pc'[w] \in PC \ {"evict", "cleanEvict"} => Counts(w)'
  BY DEF CallFits, Counts, Calling, Resting
<1>3. CASE Quota(w)
  <2>1. QuotaScan(w, PlanKeys(w)) /\ pc'[w] = "evict" /\ plan' = plan
    BY <1>1, <1>3 DEF Quota, Jump, Keep
  <2>2. Protected(w)' = PlanKeys(w)
    BY <2>1 DEF Protected, PlanKeys
  <2>3. /\ stage'[w] = "quota" /\ victims'[w] = Present \ PlanKeys(w) /\ total'[w] = Cardinality(Present)
        /\ UNCHANGED <<entry, Present>>
    BY <1>1, <2>1 DEF QuotaScan, Goto, CacheTypeOK, Present
  <2> QED
    BY <2>2, <2>3 DEF Counts
<1>4. CASE CleanupQuota(w)
  <2>1. QuotaScan(w, {}) /\ pc'[w] = "cleanEvict"
    BY <1>1, <1>4 DEF CleanupQuota, Jump
  <2>2. Protected(w)' = {}
    BY <2>1 DEF Protected
  <2>3. /\ stage'[w] = "quota" /\ victims'[w] = Present /\ total'[w] = Cardinality(Present)
        /\ UNCHANGED <<entry, Present>>
    BY <1>1, <2>1 DEF QuotaScan, Goto, CacheTypeOK, Present
  <2> QED
    BY <2>2, <2>3 DEF Counts
<1>5. CASE Evict(w)
  <2>1. UNCHANGED plan /\ pc[w] \in {"evict", "cleanEvict"}
        /\ pc'[w] = IF stage'[w] # "idle" THEN pc[w] ELSE IF pc[w] = "evict" THEN "unwind" ELSE "return"
    BY <1>1, <1>5 DEF Evict, Jump, Keep
  <2>2. CASE stage'[w] = "idle"
    BY <2>2 DEF Counts
  <2>3. CASE stage'[w] # "idle"
    <3>1. UNCHANGED Protected(w)
      BY <2>1, <2>3 DEF Protected, PlanKeys
    <3>2. ~RemoveLocked(w)
      BY <1>1, <2>3 DEF RemoveLocked, EndQuota, EndCall, Goto, CacheTypeOK
    <3> QED
      BY <1>5, <3>1, <3>2, QuotaCounts DEF Evict
  <2> QED
    BY <2>2, <2>3
<1>6. CASE Cancel(w) \/ \E j \in Jobs : \E p \in Plans[j] : SubmitRaises(w, j, p)
  <2>1. UNCHANGED <<pc, plan, entry, stage, target, victims, total, todo>>
    BY <1>6 DEF Cancel, SubmitRaises, runVars, cacheRest, quotaVars
  <2>2. UNCHANGED <<Protected(w), Present>>
    BY <2>1 DEF Protected, PlanKeys, Present
  <2> QED
    BY <1>1, <2>1, <2>2 DEF Counts
<1>7. CASE ~(Quota(w) \/ CleanupQuota(w) \/ Evict(w) \/ Cancel(w)
             \/ \E j \in Jobs : \E p \in Plans[j] : SubmitRaises(w, j, p))
  <2> USE <1>1 DEF Jump, PC
  <2>1. CASE \/ Prepare(w) \/ Discover(w) \/ SweepStart(w) \/ StepStart(w) \/ TouchHit(w) \/ StartPublish(w)
             \/ Publishing(w) \/ Unwind(w) \/ CleanupSweep(w) \/ PrepareRaises(w) \/ SweepRaises(w) \/ Cleanup(w)
    BY <1>2, <2>1 DEF Prepare, Discover, SweepStart, StepStart, TouchHit, StartPublish, Publishing, Unwind,
        CleanupSweep, SweepRaises, PrepareRaises, Cleanup, At
  <2>2. CASE Cancelled(w) \/ CacheRaises(w) \/ Execute(w)
    BY <1>2, <2>2 DEF Cancelled, CacheRaises, Execute, Raise
  <2>3. CASE Begin(w) \/ StepHit(w) \/ StepMiss(w) \/ StepDone(w) \/ Complete(w) \/ Fail(w)
    BY <1>2, <2>3 DEF Begin, StepHit, StepMiss, StepDone, Complete, Fail, Save, SaveRaises
  <2>4. CASE BeginHistory(w) \/ Announce(w) \/ Progress(w) \/ CompleteHistory(w) \/ FailHistory(w)
    BY <1>2, <2>4 DEF BeginHistory, Announce, Progress, CompleteHistory, FailHistory, Record, RecordRaises
  <2>5. CASE Return(w) \/ Crash(w)
    BY <1>2, <2>5 DEF Return, Crash, Leave
  <2>6. CASE \E j \in Jobs : \E p \in Plans[j] : Submit(w, j, p)
    BY <1>2, <2>6 DEF Submit
  <2> QED
    BY <1>7, <2>1, <2>2, <2>3, <2>4, <2>5, <2>6 DEF StepOf, Proceed
<1> QED
  BY <1>3, <1>4, <1>5, <1>6, <1>7

\* Each step leaves the results behind its process where they are.
LEMMA StepsHold ==
  ASSUME LoneInv, NEW w \in Workers, StepOf(w)
  PROVE  HoldsResults(w)'
<1>1. /\ CacheTypeOK /\ RunInv /\ CacheCall(w) /\ HoldsResults(w) /\ CallFits(w) /\ Builds(w) /\ pc[w] \in PC
      /\ pc \in [Workers -> PC] /\ at \in [Workers -> 1..(N + 1)] /\ at[w] \in 1..(N + 1)
      /\ plan[w] \in Plan /\ Knows(w) /\ plan \in [Workers -> Plan]
  BY StepsCallCache DEF LoneInv, IInv, AllFit, AllLone, RunInv, RunTypes
<1>2. ASSUME UNCHANGED <<plan[w], at[w]>>, HasJob(w)' => HasJob(w), pc'[w] # "progress"
      PROVE  HoldsResults(w)'
  <2>1. ASSUME NEW i \in Steps, HasJob(w), i < at[w] PROVE Valid(plan[w].keys[i])'
    <3>1. plan[w].keys[i] \in PlanKeys(w) /\ Valid(plan[w].keys[i])
      BY <1>1, <2>1 DEF PlanKeys, HoldsResults
    <3>2. ASSUME NEW k \in PlanKeys(w), Valid(k) PROVE Valid(k)'
      BY <1>1, <2>1, <3>2, ResultsInHandStay
    <3>3. Valid(plan[w].keys[i])' <=> entry'[plan[w].keys[i]] = Whole
      BY <1>2 DEF Valid
    <3>4. entry'[plan[w].keys[i]] = Whole
      BY <3>1, <3>2 DEF Valid
    <3> QED
      BY <3>3, <3>4
  <2> QED
    BY <1>2, <2>1 DEF HoldsResults
<1>3. CASE Progress(w)
  <2>1. UNCHANGED <<entry, plan>> /\ Valid(Key(w)) /\ pc'[w] # "progress" /\ HasJob(w)
        /\ at'[w] \in {at[w], at[w] + 1}
    BY <1>1, <1>3, InHand DEF Progress, At, Keep, Record, RecordRaises, Jump, HoldsResults, cacheRest, Looping
  <2>2. \A i \in Steps : i < at[w] + 1 => i < at[w] \/ i = at[w]
    BY <1>1, StepsAssumption DEF Steps
  <2>3. \A i \in Steps : i < at'[w] => Valid(plan[w].keys[i])
    BY <1>1, <2>1, <2>2 DEF HoldsResults, Key
  <2> QED
    BY <2>1, <2>3 DEF HoldsResults, Valid
<1>4. CASE StepHit(w) \/ StepDone(w)
  <2>1. UNCHANGED <<entry, plan, at>> /\ pc[w] \in {"looked", "publish"} /\ stage[w] \in {"hit", "done"}
    BY <1>4 DEF StepHit, StepDone, At, Keep, Acknowledge, cacheRest
  <2>2. Valid(Key(w)) /\ HasJob(w)
    BY <1>1, <2>1, InHand DEF CallFits, Calling, Builds, Looping
  <2> QED
    BY <1>1, <2>1, <2>2 DEF HoldsResults, Valid, Key
<1>5. CASE Cancel(w)
  BY <1>1, <1>5 DEF Cancel, HoldsResults, HasJob, Key, Valid, cacheRest
<1>6. CASE Return(w) \/ Crash(w)
  BY <1>1, <1>6 DEF Return, Crash, Leave, Jump, HoldsResults, HasJob, Busy
<1>7. CASE \E j \in Jobs : \E p \in Plans[j] : Submit(w, j, p)
  <2>1. at'[w] = 1 /\ pc'[w] = "prepare"
    BY <1>1, <1>7 DEF Submit, Jump
  <2> QED
    BY <2>1, StepsAssumption DEF HoldsResults, Steps
<1>8. CASE \E j \in Jobs : \E p \in Plans[j] : SubmitRaises(w, j, p)
  BY <1>1, <1>8 DEF SubmitRaises, At, runVars, HoldsResults, HasJob, Busy
<1> USE DEF HasJob, Busy, PC, Jump, Keep, At
<1>9. CASE \/ Prepare(w) \/ Discover(w) \/ SweepStart(w) \/ StepStart(w) \/ TouchHit(w) \/ StartPublish(w)
           \/ Publishing(w) \/ Quota(w) \/ Unwind(w) \/ CleanupSweep(w) \/ CleanupQuota(w)
           \/ PrepareRaises(w) \/ SweepRaises(w) \/ Cleanup(w)
  BY <1>1, <1>2, <1>9 DEF Prepare, Discover, SweepStart, StepStart, TouchHit, StartPublish, Publishing, Quota, Unwind,
      CleanupSweep, CleanupQuota, SweepRaises, PrepareRaises, Cleanup
<1>10. CASE Evict(w)
  BY <1>1, <1>2, <1>10 DEF Evict
<1>11. CASE Cancelled(w) \/ CacheRaises(w) \/ Execute(w)
  BY <1>1, <1>2, <1>11 DEF Cancelled, CacheRaises, Execute, Raise
<1>12. CASE Begin(w) \/ StepMiss(w) \/ Complete(w) \/ Fail(w)
  BY <1>1, <1>2, <1>12 DEF Begin, StepMiss, Complete, Fail, Save, SaveRaises
<1>13. CASE BeginHistory(w) \/ Announce(w) \/ CompleteHistory(w) \/ FailHistory(w)
  BY <1>1, <1>2, <1>13 DEF BeginHistory, Announce, CompleteHistory, FailHistory, Record, RecordRaises
<1> QED
  BY <1>3, <1>4, <1>5, <1>6, <1>7, <1>8, <1>9, <1>10, <1>11, <1>12, <1>13 DEF StepOf, Proceed

\* What a process alone holds and counts is so in every reachable state.
THEOREM LoneInvariance == ASSUME Alone PROVE Spec => []LoneInv
<1>1. Init => AllLone
  <2> SUFFICES ASSUME Init, NEW w \in Workers PROVE Builds(w) /\ HoldsResults(w) /\ Counts(w)
    BY DEF AllLone
  <2>1. pc[w] = "idle" /\ stage[w] = "idle"
    BY DEF Init, CacheInit
  <2> QED
    BY <2>1 DEF Builds, HoldsResults, Counts, HasJob, Busy
<1>2. IInv /\ AllFit /\ AllLone /\ [Next]_vars /\ AllFit' => AllLone'
  <2> SUFFICES ASSUME IInv, AllFit, AllLone, [Next]_vars, AllFit' PROVE AllLone'
    OBVIOUS
  <2>1. CASE UNCHANGED vars
    <3>1. ASSUME NEW w \in Workers PROVE Builds(w)' /\ HoldsResults(w)' /\ Counts(w)'
      <4> USE <2>1 DEF vars, cacheVars, runVars, quotaVars, AllLone
      <4>1. Builds(w)'
        BY DEF Builds, Valid
      <4>2. HoldsResults(w)'
        BY DEF HoldsResults, HasJob, Valid, Key
      <4>3. UNCHANGED <<Protected(w), Present>>
        BY DEF Protected, PlanKeys, Present
      <4>4. Counts(w)'
        BY <4>3 DEF Counts
      <4> QED
        BY <4>1, <4>2, <4>4
    <3> QED
      BY <3>1 DEF AllLone
  <2>2. ASSUME NEW w \in Workers, StepOf(w) PROVE AllLone'
    <3>1. Builds(w)' /\ HoldsResults(w)' /\ Counts(w)'
      <4>1. LoneInv /\ CallFits(w)' /\ CacheCall(w)
        BY <2>2, StepsCallCache DEF LoneInv, AllFit, IInv
      <4> QED
        BY <2>2, <4>1, CallsBuild, StepsHold, StepsCount
    <3>2. \A u \in Workers : u = w
      BY DEF Alone
    <3> QED
      BY <3>1, <3>2 DEF AllLone
  <2> QED
    BY <2>1, <2>2 DEF Next, StepOf
<1>3. IInv /\ AllFit /\ AllLone => LoneInv
  BY DEF LoneInv
<1> QED
  BY <1>1, <1>2, <1>3, CallsFit, PTL DEF Spec

\* With a process alone only whole entries appear in the cache, and only whole
\* ones are handed to a step, for any keys, jobs and plans and whatever dies,
\* although removals stop half-way (lookup, publish, enforce_limit).
THEOREM LoneCacheWhole == ASSUME Alone PROVE Spec => CacheKeepsWhole
<1>1. ASSUME LoneInv, NEW w \in Workers, StepOf(w) PROVE AppearsWhole
  <2>1. CacheCall(w) /\ entry \in [Keys -> Tree]
    BY <1>1, StepsCallCache DEF LoneInv, IInv, CacheTypeOK
  <2>2. ASSUME NEW k \in Keys, entry[k] = {}, entry'[k] # {} PROVE entry'[k] = Whole
    BY <1>1, <2>1, <2>2, EntryChanges DEF Present
  <2> QED
    BY <2>2 DEF AppearsWhole
<1>2. ASSUME LoneInv, NEW w \in Workers, StepOf(w), LoneInv' PROVE HandsOutWhole
  <2>1. ASSUME NEW u \in Workers, stage'[u] \in {"hit", "done"} PROVE "files" \in entry'[target'[u]]
    BY <1>2, <2>1 DEF LoneInv, AllLone, Builds, Valid, Whole, Part
  <2>2. CacheCall(w) /\ CacheTypeOK
    BY <1>2, StepsCallCache DEF LoneInv, IInv
  <2>3. ASSUME NEW u \in Workers, stage'[u] \in {"hit", "done"}, stage'[u] # stage[u]
        PROVE  target'[u] = target[u]
    <3>1. u = w
      BY <2>2, <2>3, CallsAreOwn
    <3>2. CASE (\E k \in Keys : Lookup(w, k)) \/ PublishBegin(w) \/ PublishMkdirFails(w) \/ PublishCopy(w) \/ PublishManifest(w)
               \/ PublishVerify(w) \/ PublishFails(w) \/ Touch(w) \/ TouchFails(w)
      BY <2>2, <2>3, <3>1, <3>2 DEF Lookup, PublishBegin, PublishMkdirFails, PublishCopy, PublishManifest, PublishVerify, PublishFails,
          Touch, TouchFails, Goto, CacheTypeOK
    <3>3. CASE PublishReplace(w) \/ Sweep(w) \/ \E P \in SUBSET Keys : QuotaScan(w, P)
      BY <3>1, <3>3 DEF PublishReplace, Sweep, QuotaScan
    <3>4. CASE QuotaStep(w) \/ RemoveLocked(w) \/ CacheCrash(w) \/ EndCall(w)
      <4>1. stage'[w] \in {"idle", "quota", "remove"}
        BY <2>2, <3>4 DEF QuotaStep, QuotaNext, RemoveChild, RemoveDir, QuotaDone, RemoveLocked, CacheCrash, EndQuota,
            EndCall, Goto, CacheTypeOK
      <4> QED
        BY <2>3, <3>1, <4>1
    <3>5. CASE UNCHANGED <<stage, target, cacheRest>>
      BY <3>5
    <3> QED
      BY <2>2, <3>2, <3>3, <3>4, <3>5 DEF CacheCall, PublishStep, PublishFault
  <2> QED
    BY <2>1, <2>3 DEF HandsOutWhole
<1>3. LoneInv /\ LoneInv' /\ [Next]_vars => [AppearsWhole]_cacheVars /\ [HandsOutWhole]_cacheVars
  <2>1. CASE UNCHANGED vars
    BY <2>1 DEF vars
  <2>2. CASE Next
    BY <1>1, <1>2, <2>2 DEF Next, StepOf
  <2> QED
    BY <2>1, <2>2
<1> QED
  BY <1>3, LoneInvariance, PTL DEF Spec, CacheKeepsWhole, PublishedWhole, NeverConsumePartial

\* A process alone that gets through its quota leaves the cache within the
\* limit, or holding only what its job still needs, for any limit and any
\* entries, corrupt ones included (enforce_limit).
THEOREM LoneQuotaHolds == ASSUME Alone PROVE Spec => QuotaHolds
<1>1. ASSUME LoneInv, NEW w \in Workers, NEW u \in Workers, StepOf(u),
             stage[w] = "quota", stage'[w] = "idle", events' = events
      PROVE  Cardinality(Present) <= Limit \/ Present \subseteq PlanKeys(w)
  <2>1. /\ CacheTypeOK /\ Counts(w) /\ CallFits(w) /\ events \in Nat /\ pc[w] \in PC
        /\ Cardinality(Present) \in Nat
    BY <1>1, WorkersAssumption, FS_Subset, FS_CardinalityType
    DEF LoneInv, IInv, AllLone, AllFit, RunInv, RunTypes, CacheTypeOK, Present
  <2>2. u = w
    BY DEF Alone
  <2>3. pc[w] \in {"evict", "cleanEvict"}
    BY <1>1, <2>1 DEF CallFits, Calling, Resting
  <2>4. Evict(w) \/ Cancel(w) \/ Crash(w)
    BY <1>1, <2>2, <2>3 DEF StepOf, Proceed, At, Prepare, Discover, SweepStart, Begin, BeginHistory, StepStart, Cancelled,
        TouchHit, StepHit, StepMiss, Announce, Execute, StartPublish, Publishing, CacheRaises, StepDone, Progress,
        Complete, CompleteHistory, Quota, Fail, FailHistory, Unwind, Return, CleanupSweep, CleanupQuota,
        SweepRaises, PrepareRaises, Cleanup, Submit, SubmitRaises
  <2>5. ~Cancel(w) /\ ~Crash(w)
    BY <1>1, <2>1 DEF Cancel, Crash, CacheCrash, Inject
  <2>6. QuotaDone(w)
    <3>1. ~RemoveLocked(w) /\ ~RemoveChild(w) /\ ~RemoveDir(w)
      BY <1>1 DEF RemoveLocked, RemoveChild, RemoveDir
    <3>2. ~QuotaNext(w)
      BY <1>1, <2>1 DEF QuotaNext, Goto, CacheTypeOK
    <3> QED
      BY <2>4, <2>5, <3>1, <3>2 DEF Evict, QuotaStep
  <2>7. total[w] <= Limit \/ victims[w] = {}
    BY <2>1, <2>6, LimitAssumption DEF QuotaDone, QuotaOver, CacheTypeOK
  <2>8. total[w] = Cardinality(Present) /\ Present \subseteq victims[w] \cup Protected(w)
    BY <1>1, <2>1 DEF Counts
  <2>9. Protected(w) \subseteq PlanKeys(w)
    BY DEF Protected
  <2> QED
    BY <2>7, <2>8, <2>9
<1>2. LoneInv /\ [Next]_vars =>
        [\A w \in Workers :
           stage[w] = "quota" /\ stage'[w] = "idle" /\ events' = events =>
             Cardinality(Present) <= Limit \/ Present \subseteq PlanKeys(w)]_vars
  BY <1>1 DEF Next, StepOf
<1> QED
  BY <1>2, LoneInvariance, PTL DEF Spec, QuotaHolds

-----------------------------------------------------------------------------
(* A process alone implements the ledger *)

\* The variables of the ledger, as the runner's state gives them.
Status == [j \in Jobs |-> LedgerStatus(snap[j].status)]
Banked == {k \in Keys : Valid(k)}

\* The steps of the ledger, over these three.
LEMMA LedgerSteps ==
  /\ \A j \in Jobs : Status' = [Status EXCEPT ![j] = "open"] /\ UNCHANGED <<Banked, Held>> => Ledger!Next
  /\ \A j \in Jobs : \A p \in Plans[j] :
       (Status[j] = "open" /\ (\A i \in Steps : p.keys[i] \in Held)
          /\ Status' = [Status EXCEPT ![j] = "done"] /\ UNCHANGED <<Banked, Held>>) => Ledger!Next
  /\ \A j \in Jobs :
       (Status[j] = "open" /\ Status' = [Status EXCEPT ![j] = "cancelled"]
          /\ UNCHANGED <<Banked, Held>>) => Ledger!Next
  /\ \A k \in Keys : Banked' = Banked \cup {k} /\ UNCHANGED <<Status, Held>> => Ledger!Next
  /\ \A k \in Keys : k \notin Held /\ Banked' = Banked \ {k} /\ UNCHANGED <<Status, Held>> => Ledger!Next
  /\ Held' \in SUBSET Banked /\ UNCHANGED <<Status, Banked>> => Ledger!Next
  /\ UNCHANGED <<Status, Banked, Held>> => UNCHANGED Ledger!ledger
<1>0. ASSUME NEW j \in Jobs, NEW s, Status' = [Status EXCEPT ![j] = s], UNCHANGED <<Banked, Held>>
      PROVE  Ledger!SetStatus(j, s)
  BY <1>0 DEF Status, Banked, Ledger!SetStatus
<1>1. ASSUME NEW j \in Jobs, Status' = [Status EXCEPT ![j] = "open"], UNCHANGED <<Banked, Held>>
      PROVE  Ledger!Next
  BY <1>0, <1>1 DEF Ledger!Open, Ledger!Next
<1>2. ASSUME NEW j \in Jobs, NEW p \in Plans[j], Status[j] = "open", \A i \in Steps : p.keys[i] \in Held,
             Status' = [Status EXCEPT ![j] = "done"], UNCHANGED <<Banked, Held>>
      PROVE  Ledger!Next
  <2> DEFINE KeysOf(q) == {q.keys[i] : i \in Steps}
             Sets      == [i \in Jobs |-> {KeysOf(q) : q \in Plans[i]}]
  <2>1. Ledger!SetStatus(j, "done")
    BY <1>0, <1>2
  <2>2. KeysOf(p) \subseteq Held
    BY <1>2
  <2>3. Sets[j] = {KeysOf(q) : q \in Plans[j]}
    OBVIOUS
  <2>4. \E ks \in Sets[j] : ks \subseteq Held
    <3> HIDE DEF KeysOf, Sets
    <3>1. KeysOf(p) \in {KeysOf(q) : q \in Plans[j]}
      OBVIOUS
    <3> QED
      BY <2>2, <2>3, <3>1
  <2>5. Ledger!Close(j)
    BY <1>2, <2>1, <2>4 DEF Status, Ledger!Close
  <2> QED
    BY <2>5 DEF Ledger!Next
<1>3. ASSUME NEW j \in Jobs, Status[j] = "open", Status' = [Status EXCEPT ![j] = "cancelled"],
             UNCHANGED <<Banked, Held>>
      PROVE  Ledger!Next
  <2>1. Ledger!SetStatus(j, "cancelled")
    BY <1>0, <1>3
  <2>2. Ledger!Cancel(j)
    BY <1>3, <2>1 DEF Status, Ledger!Cancel
  <2> QED
    BY <2>2 DEF Ledger!Next
<1>4. \A k \in Keys : Banked' = Banked \cup {k} /\ UNCHANGED <<Status, Held>> => Ledger!Next
  BY DEF Status, Banked, Ledger!Next, Ledger!Bank
<1>5. \A k \in Keys : k \notin Held /\ Banked' = Banked \ {k} /\ UNCHANGED <<Status, Held>> => Ledger!Next
  BY DEF Status, Banked, Ledger!Next, Ledger!Drop
<1>6. Held' \in SUBSET Banked /\ UNCHANGED <<Status, Banked>> => Ledger!Next
  BY DEF Status, Banked, Ledger!Next, Ledger!Hold
<1>7. UNCHANGED <<Status, Banked, Held>> => UNCHANGED Ledger!ledger
  BY DEF Status, Banked, Ledger!ledger
<1>8. \A j \in Jobs : Status' = [Status EXCEPT ![j] = "open"] /\ UNCHANGED <<Banked, Held>> => Ledger!Next
  BY <1>1
<1>9. \A j \in Jobs : \A p \in Plans[j] :
        (Status[j] = "open" /\ (\A i \in Steps : p.keys[i] \in Held)
           /\ Status' = [Status EXCEPT ![j] = "done"] /\ UNCHANGED <<Banked, Held>>) => Ledger!Next
  BY <1>2
<1>10. \A j \in Jobs :
        (Status[j] = "open" /\ Status' = [Status EXCEPT ![j] = "cancelled"]
           /\ UNCHANGED <<Banked, Held>>) => Ledger!Next
  BY <1>3
<1> QED
  BY <1>4, <1>5, <1>6, <1>7, <1>8, <1>9, <1>10

\* The statuses of the ledger.
LEMMA LedgerStatuses ==
  /\ LedgerStatus("absent") = "new" /\ LedgerStatus("pending") = "open" /\ LedgerStatus("running") = "open"
  /\ LedgerStatus("failed") = "open" /\ LedgerStatus("completed") = "done" /\ LedgerStatus("cancelled") = "cancelled"
  BY DEF LedgerStatus, Recoverable

\* What a process alone holds, and that it is banked.
LEMMA HeldByOne ==
  ASSUME Alone, LoneInv, NEW w \in Workers
  PROVE  /\ Held = {k \in Keys : HasJob(w) /\ \E i \in Steps : i < at[w] /\ k = plan[w].keys[i]}
         /\ Held \subseteq Banked
<1>1. Held = {k \in Keys : HasJob(w) /\ \E i \in Steps : i < at[w] /\ k = plan[w].keys[i]}
  BY DEF Held, HasJob, Alone
<1>2. HoldsResults(w)
  BY DEF LoneInv, AllLone
<1> QED
  BY <1>1, <1>2 DEF HoldsResults, Banked

\* What it holds changes only as it goes on to its next step, or ends.
LEMMA HeldStays ==
  ASSUME Alone, NEW w \in Workers,
         \/ (HasJob(w)' <=> HasJob(w)) /\ UNCHANGED <<plan[w], at[w]>>
         \/ (HasJob(w) => at[w] = 1) /\ (HasJob(w)' => at'[w] = 1)
  PROVE  Held' = Held
<1>1. Held = {k \in Keys : HasJob(w) /\ \E i \in Steps : i < at[w] /\ k = plan[w].keys[i]}
  BY DEF Held, HasJob, Alone
<1>2. Held' = {k \in Keys : HasJob(w)' /\ \E i \in Steps : i < at'[w] /\ k = plan'[w].keys[i]}
  BY DEF Held, HasJob, Alone
<1>3. \A i \in Steps : ~(i < 1)
  BY StepsAssumption DEF Steps
<1>4. CASE (HasJob(w)' <=> HasJob(w)) /\ UNCHANGED <<plan[w], at[w]>>
  BY <1>1, <1>2, <1>4
<1>5. CASE (HasJob(w) => at[w] = 1) /\ (HasJob(w)' => at'[w] = 1)
  BY <1>1, <1>2, <1>3, <1>5
<1> QED
  BY <1>4, <1>5

\* A step writes one snapshot at most.
LEMMA OneSnapshot ==
  ASSUME NEW w \in Workers, StepOf(w), job[w] \in Jobs
  PROVE  snap' = snap \/ \E j \in Jobs : \E m : snap' = [snap EXCEPT ![j] = m]
<1>1. CASE Begin(w) \/ StepHit(w) \/ StepMiss(w) \/ StepDone(w) \/ Complete(w) \/ Fail(w)
  BY <1>1 DEF Begin, StepHit, StepMiss, StepDone, Complete, Fail, Save, SaveRaises
<1>2. CASE \E j \in Jobs : \E p \in Plans[j] : Submit(w, j, p) \/ SubmitRaises(w, j, p)
  BY <1>2 DEF Submit, SubmitRaises
<1>3. CASE \/ Prepare(w) \/ Discover(w) \/ SweepStart(w) \/ StepStart(w) \/ TouchHit(w) \/ StartPublish(w)
           \/ Publishing(w) \/ Quota(w) \/ Evict(w) \/ Unwind(w) \/ CleanupSweep(w) \/ CleanupQuota(w)
           \/ PrepareRaises(w) \/ SweepRaises(w) \/ Cleanup(w)
  BY <1>3 DEF Prepare, Discover, SweepStart, StepStart, TouchHit, StartPublish, Publishing, Quota, Evict, Unwind,
      CleanupSweep, CleanupQuota, SweepRaises, PrepareRaises, Cleanup, diskVars
<1>4. CASE \/ Cancelled(w) \/ CacheRaises(w) \/ Execute(w) \/ BeginHistory(w) \/ Announce(w) \/ Progress(w)
           \/ CompleteHistory(w) \/ FailHistory(w) \/ Cancel(w) \/ Return(w) \/ Crash(w)
  BY <1>4 DEF Cancelled, CacheRaises, Execute, BeginHistory, Announce, Progress, CompleteHistory, FailHistory,
      Cancel, Return, Crash, diskVars
<1> QED
  BY <1>1, <1>2, <1>3, <1>4 DEF StepOf, Proceed

\* A snapshot written is a job opened, closed or cancelled; it is closed only
\* with every result of its plan in hand.
LEMMA StatusSteps ==
  ASSUME Alone, LoneInv, NEW w \in Workers, StepOf(w), UNCHANGED <<Banked, Held>>
  PROVE  [Ledger!Next]_Ledger!ledger
<1>1. RunInv /\ Knows(w) /\ job[w] \in Jobs /\ snap \in [Jobs -> RecoverySnapshot] /\ kind[w] \in {"failed", "cancelled"}
  BY InHand DEF LoneInv, IInv, RunInv, RunTypes
<1>2. CASE snap' = snap
  BY <1>2, LedgerSteps DEF Status
<1>3. ASSUME NEW j \in Jobs, NEW m, snap' = [snap EXCEPT ![j] = m], snap'[j] # snap[j]
      PROVE  [Ledger!Next]_Ledger!ledger
  <2>1. Status' = [Status EXCEPT ![j] = LedgerStatus(snap'[j].status)] /\ Status[j] = LedgerStatus(snap[j].status)
    BY <1>1, <1>3 DEF Status
  <2>2. CASE snap'[j].status \in {"running", "pending", "failed"}
    BY <2>1, <2>2, LedgerStatuses, LedgerSteps
  <2>3. CASE pc[w] = "complete" /\ job[w] = j /\ snap[j].status = "running" /\ snap'[j].status = "completed"
    <3>1. at[w] = N + 1 /\ plan[w] \in Plans[j] /\ HasJob(w) /\ plan[w] \in Plan
      BY <1>1, <2>3, InHand DEF Knows, Position, StepsDone, Ending
    <3>2. \A i \in Steps : i < at[w] /\ plan[w].keys[i] \in Keys
      BY <3>1, StepsAssumption DEF Steps, Plan
    <3>3. \A i \in Steps : plan[w].keys[i] \in Held
      BY <3>1, <3>2, HeldByOne
    <3> QED
      BY <2>1, <2>3, <3>1, <3>3, LedgerStatuses, LedgerSteps
  <2>4. CASE pc[w] = "failing" /\ job[w] = j /\ snap'[j].status = "cancelled" /\ kind[w] = "cancelled"
    <3>1. snap[j].status = "running"
      BY <1>1, <2>4 DEF Knows, CancelKnown
    <3>2. Status[j] = "open" /\ Status' = [Status EXCEPT ![j] = "cancelled"]
      BY <2>1, <2>4, <3>1, LedgerStatuses
    <3> QED
      BY <1>1, <1>3, <3>2, LedgerSteps
  <2> QED
    BY <1>1, <1>3, <2>2, <2>3, <2>4, SnapshotWritten
<1>4. ASSUME NEW j \in Jobs, NEW m, snap' = [snap EXCEPT ![j] = m], snap'[j] = snap[j]
      PROVE  snap' = snap
  BY <1>1, <1>4
<1> QED
  BY <1>1, <1>2, <1>3, <1>4, OneSnapshot

\* An entry that changes is a result banked, or one dropped that is not held.
LEMMA BankSteps ==
  ASSUME Alone, LoneInv, NEW w \in Workers, StepOf(w), UNCHANGED <<snap, Held>>
  PROVE  [Ledger!Next]_Ledger!ledger
<1>1. CacheCall(w) /\ entry \in [Keys -> Tree] /\ Status' = Status
  BY StepsCallCache DEF LoneInv, IInv, CacheTypeOK, Status
<1>2. CASE entry' = entry
  BY <1>1, <1>2, LedgerSteps DEF Banked, Valid
<1>3. CASE target[w] \in Keys /\ entry' = [entry EXCEPT ![target[w]] = Whole]
  <2>1. Banked' = Banked \cup {target[w]}
    BY <1>1, <1>3 DEF Banked, Valid
  <2> QED
    BY <1>1, <1>3, <2>1, LedgerSteps
<1>4. ASSUME pc[w] \in {"evict", "cleanEvict"}, target[w] \in Present \ Protected(w),
             NEW t, t # Whole, entry' = [entry EXCEPT ![target[w]] = t]
      PROVE  [Ledger!Next]_Ledger!ledger
  <2>1. target[w] \in Keys /\ Banked' = Banked \ {target[w]}
    BY <1>1, <1>4 DEF Banked, Valid, Present
  <2>2. target[w] \notin Held
    BY <1>4, HeldByOne DEF HasJob, Busy, Protected, PlanKeys
  <2> QED
    BY <1>1, <2>1, <2>2, LedgerSteps
<1> QED
  BY <1>1, <1>2, <1>3, <1>4, EntryChanges

\* Every other step changes what is held, within what is banked.
LEMMA HoldSteps ==
  ASSUME Alone, LoneInv, LoneInv', NEW w \in Workers, UNCHANGED <<snap, entry>>
  PROVE  [Ledger!Next]_Ledger!ledger
<1>1. Status' = Status /\ Banked' = Banked
  BY DEF Status, Banked, Valid
<1>2. Held' \subseteq Banked'
  <2>1. HoldsResults(w)'
    BY DEF LoneInv, AllLone
  <2>2. Held' = {k \in Keys : HasJob(w)' /\ \E i \in Steps : i < at'[w] /\ k = plan'[w].keys[i]}
    BY DEF Held, HasJob, Alone
  <2> QED
    BY <2>1, <2>2 DEF HoldsResults, Banked
<1> QED
  BY <1>1, <1>2, LedgerSteps

\* Each step of the runner is a step of the ledger, or a stutter.
LEMMA StepsImplement ==
  ASSUME Alone, LoneInv, LoneInv', NEW w \in Workers, StepOf(w)
  PROVE  [Ledger!Next]_Ledger!ledger
<1>1. /\ RunInv /\ Knows(w) /\ at[w] \in 1..(N + 1) /\ pc \in [Workers -> PC] /\ at \in [Workers -> 1..(N + 1)]
  BY DEF LoneInv, IInv, RunInv, RunTypes
<1> USE DEF HasJob, Busy, PC, Jump, Keep, At
<1>2. CASE Begin(w) \/ StepHit(w) \/ StepMiss(w) \/ StepDone(w) \/ Complete(w) \/ Fail(w)
  <2>1. UNCHANGED <<entry, plan, at>>
    BY <1>2 DEF Begin, StepHit, StepMiss, StepDone, Complete, Fail, cacheRest
  <2>2. CASE Begin(w)
    <3>1. at[w] = 1
      BY <1>1, <2>2 DEF Begin, Knows, Position, Opening
    <3> QED
      BY <2>1, <3>1, HeldStays, StatusSteps DEF Banked, Valid
  <2>3. CASE StepHit(w) \/ StepMiss(w) \/ StepDone(w) \/ Complete(w) \/ Fail(w)
    <3>1. HasJob(w) /\ HasJob(w)'
      BY <1>1, <2>3 DEF StepHit, StepMiss, StepDone, Complete, Fail, Save, SaveRaises
    <3> QED
      BY <2>1, <3>1, HeldStays, StatusSteps DEF Banked, Valid
  <2> QED
    BY <1>2, <2>2, <2>3
<1>3. CASE \E j \in Jobs : \E p \in Plans[j] : Submit(w, j, p)
  <2>1. ~HasJob(w) /\ at'[w] = 1 /\ UNCHANGED entry
    BY <1>1, <1>3 DEF Submit, cacheVars
  <2> QED
    BY <2>1, HeldStays, StatusSteps DEF Banked, Valid
<1>4. CASE \E j \in Jobs : \E p \in Plans[j] : SubmitRaises(w, j, p)
  <2>1. UNCHANGED <<pc, plan, at, entry>>
    BY <1>4 DEF SubmitRaises, runVars, cacheRest
  <2> QED
    BY <2>1, HeldStays, StatusSteps DEF Banked, Valid
<1>5. CASE TouchHit(w) \/ Publishing(w) \/ Evict(w)
  <2>1. UNCHANGED <<plan, at, snap>>
    BY <1>5 DEF TouchHit, Publishing, Evict, diskVars
  <2>2. HasJob(w)' <=> HasJob(w)
    BY <1>1, <1>5 DEF TouchHit, Publishing, Evict
  <2> QED
    BY <2>1, <2>2, HeldStays, BankSteps
<1>6. CASE \/ Prepare(w) \/ Discover(w) \/ SweepStart(w) \/ StepStart(w) \/ StartPublish(w)
           \/ Quota(w) \/ Unwind(w) \/ CleanupSweep(w) \/ CleanupQuota(w) \/ PrepareRaises(w) \/ SweepRaises(w) \/ Cleanup(w)
  <2>1. UNCHANGED <<snap, entry>>
    BY <1>6 DEF Prepare, Discover, SweepStart, StepStart, StartPublish, Quota, Unwind, CleanupSweep, CleanupQuota,
        SweepRaises, PrepareRaises, Cleanup, SweepBoth, Sweep, Lookup, PublishBegin, PublishMkdirFails, QuotaScan, diskVars, cacheVars, cacheRest
  <2> QED
    BY <2>1, HoldSteps
<1>7. CASE \/ Cancelled(w) \/ CacheRaises(w) \/ Execute(w) \/ BeginHistory(w) \/ Announce(w) \/ Progress(w)
           \/ CompleteHistory(w) \/ FailHistory(w) \/ Cancel(w) \/ Return(w) \/ Crash(w)
  <2>1. UNCHANGED <<snap, entry>>
    BY <1>7 DEF Cancelled, CacheRaises, Execute, BeginHistory, Announce, Progress, CompleteHistory, FailHistory,
        Cancel, Return, Crash, CacheCrash, diskVars, cacheVars, cacheRest
  <2> QED
    BY <2>1, HoldSteps
<1> QED
  BY <1>2, <1>3, <1>4, <1>5, <1>6, <1>7 DEF StepOf, Proceed

\* A process alone implements the ledger, for any jobs, steps, plans, keys and
\* limit, and whatever fails or dies: a job is reported done only from an open
\* job with a whole chain of results in hand, and no result in hand is dropped.
THEOREM LoneImplementsLedger == ASSUME Alone PROVE Spec => ImplementsLedger
<1>1. Init => Ledger!Init
  <2> SUFFICES ASSUME Init PROVE Ledger!Init
    OBVIOUS
  <2>1. \A j \in Jobs : LedgerStatus(snap[j].status) = "new"
    BY NewSnapshots, LedgerStatuses DEF Init
  <2>2. {k \in Keys : Valid(k)} = {}
    BY DEF Init, CacheInit, Valid, Whole, Part
  <2>3. Held = {}
    BY DEF Init, Held, Busy
  <2> QED
    BY <2>1, <2>2, <2>3 DEF Ledger!Init
<1>2. LoneInv /\ LoneInv' /\ [Next]_vars => [Ledger!Next]_Ledger!ledger
  <2>1. CASE UNCHANGED vars
    <3>1. UNCHANGED <<Status, Banked, Held>>
      BY <2>1 DEF vars, cacheVars, diskVars, runVars, Status, Banked, Held, Valid
    <3> QED
      BY <3>1, LedgerSteps
  <2>2. CASE Next
    BY <2>2, StepsImplement DEF Next, StepOf
  <2> QED
    BY <2>1, <2>2
<1> QED
  BY <1>1, <1>2, LoneInvariance, PTL DEF Spec, ImplementsLedger, Ledger!Spec
===============================================================================
