----------------------------- MODULE CacheWorkers -----------------------------
(***************************************************************************)
(* Engine processes that share one step cache and nothing else: every      *)
(* process looks a key up, publishes it on a miss, and dies at any point.  *)
(* Sweeps and evictions belong to the runs of jobs and are in JobRunner.   *)
(***************************************************************************)
EXTENDS StepCache

\* A call is over: the process goes on to its next one.
Finish(w) ==
  /\ Acknowledge(w, {"hit", "done", "error"})
  /\ UNCHANGED <<entry, temp, litter, quotaVars, events>>

Step(w) ==
  \/ \E k \in Keys : Lookup(w, k)
  \/ PublishBegin(w) \/ PublishStep(w)
  \/ Finish(w)

Fault(w) ==
  \/ PublishMkdirFails(w) \/ PublishFault(w)
  \/ CacheCrash(w)

Next == \E w \in Workers : Step(w) \/ Fault(w)

Spec == CacheInit /\ [][Next]_cacheVars

-----------------------------------------------------------------------------
(***************************************************************************)
(* With nobody sweeping or evicting, the directories of the cache are      *)
(* absent or whole in every state, whatever dies and whoever races.        *)
(***************************************************************************)
WholeOrAbsent == \A k \in Keys : entry[k] \in {{}, Whole}

(***************************************************************************)
(* Losing a publication race is not a failure: a call ends in an error     *)
(* only after the environment injected a fault ("Another worker may have   *)
(* won publication", publish).                                             *)
(***************************************************************************)
LosersSucceed == events = MaxEvents => \A w \in Workers : stage[w] # "error"

(***************************************************************************)
(* What makes WholeOrAbsent inductive: a publication under way holds       *)
(* exactly the parts it has written, and a lookup that verified an entry   *)
(* still has it.                                                           *)
(***************************************************************************)
StageParts ==
  \A w \in Workers :
    /\ stage[w] = "copy"     => temp[w] = {"dir"}
    /\ stage[w] = "manifest" => temp[w] = {"dir", "files"}
    /\ stage[w] = "replace"  => temp[w] = Whole

VerifiedStays ==
  \A w \in Workers :
    stage[w] \in {"touchHit", "touchDone", "verify"} => entry[target[w]] = Whole

\* A call has a key.
CallHasKey ==
  \A w \in Workers :
    stage[w] \in Stage \ {"idle", "quota"} => target[w] \in Keys

WorkersInv ==
  /\ CacheTypeOK /\ CallHasKey /\ StageParts /\ VerifiedStays /\ WholeOrAbsent
  /\ \A w \in Workers : stage[w] \notin {"quota", "remove"}
=============================================================================
