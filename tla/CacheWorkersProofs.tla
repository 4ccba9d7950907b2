-------------------------- MODULE CacheWorkersProofs --------------------------
(***************************************************************************)
(* Any number of processes that look up and publish, none that sweeps or   *)
(* evicts meanwhile: the cache holds whole entries only.  The invariant is *)
(* WorkersInv; one step of the proof per action.                           *)
(***************************************************************************)
EXTENDS CacheWorkers, TLAPS

(* The initial states satisfy the inductive invariant.                     *)
LEMMA InitInv == CacheInit => WorkersInv
<1> SUFFICES ASSUME CacheInit PROVE WorkersInv
  OBVIOUS
<1>1. {} \in Tree
  BY DEF Tree
<1>2. CacheTypeOK
  <2>1. entry \in [Keys -> Tree] /\ temp \in [Workers -> Tree]
    BY <1>1 DEF CacheInit
  <2>2. stage \in [Workers -> Stage]
    BY DEF CacheInit, Stage
  <2>3. /\ litter \in BOOLEAN
        /\ target \in [Workers -> Keys \cup {NoKey}]
        /\ todo \in [Workers -> SUBSET Part]
        /\ victims \in [Workers -> SUBSET Keys]
    BY DEF CacheInit
  <2>4. total \in [Workers -> Int]
    BY DEF CacheInit
  <2>5. events \in Nat
    BY LimitAssumption DEF CacheInit
  <2> QED
    BY <2>1, <2>2, <2>3, <2>4, <2>5 DEF CacheTypeOK
<1>3. \A w \in Workers : stage[w] = "idle"
  BY DEF CacheInit
<1>4. WholeOrAbsent
  BY DEF CacheInit, WholeOrAbsent
<1> QED
  BY <1>2, <1>3, <1>4 DEF WorkersInv, CallHasKey, StageParts, VerifiedStays, Stage

(* A lookup (verify, then rewrite the manifest) keeps the invariant.       *)
LEMMA LookupKeeps ==
  ASSUME WorkersInv, NEW w \in Workers,
         (\E k \in Keys : Lookup(w, k)) \/ Touch(w) \/ TouchFails(w)
  PROVE  WorkersInv'
<1> USE DEF Stage, Tree, Part, Whole, NoKey, CacheTypeOK, Goto, SetTemp, quotaVars
<1>1. CASE \E k \in Keys : Lookup(w, k)
  BY <1>1 DEF WorkersInv, CallHasKey, StageParts, VerifiedStays, WholeOrAbsent, Lookup, Valid
<1>2. CASE Touch(w)
  <2>1. target[w] \in Keys /\ entry[target[w]] = Whole /\ stage[w] \in {"touchHit", "touchDone"}
    BY <1>2 DEF WorkersInv, CallHasKey, VerifiedStays, Touch, Touched
  <2>2. entry' = entry
    BY <1>2, <2>1 DEF Touch, WorkersInv
  <2>3. stage' = [stage EXCEPT ![w] = Touched[stage[w]]] /\ Touched[stage[w]] \in {"hit", "done"}
    BY <1>2, <2>1 DEF Touch, Touched
  <2> QED
    BY <1>2, <2>1, <2>2, <2>3 DEF WorkersInv, CallHasKey, StageParts, VerifiedStays, WholeOrAbsent, Touch
<1>3. CASE TouchFails(w)
  <2>1. stage' = [stage EXCEPT ![w] = Touched[stage[w]]] /\ Touched[stage[w]] \in {"hit", "done"}
        /\ stage[w] \in {"touchHit", "touchDone"}
    BY <1>3 DEF TouchFails, Touched
  <2> QED
    BY <1>3, <2>1 DEF WorkersInv, CallHasKey, StageParts, VerifiedStays, WholeOrAbsent, TouchFails, Inject
<1> QED
  BY <1>1, <1>2, <1>3

(* Preparing a publication touches the process's own temporary only.       *)
LEMMA PrepareKeeps ==
  ASSUME WorkersInv, NEW w \in Workers,
         \/ PublishBegin(w) \/ PublishMkdirFails(w) \/ PublishCopy(w) \/ PublishManifest(w)
         \/ PublishVerify(w) \/ PublishFails(w)
  PROVE  WorkersInv'
<1> USE DEF Stage, Tree, Part, Whole, NoKey, CacheTypeOK, Goto, SetTemp, quotaVars, Valid, PublishRaises,
            WorkersInv, CallHasKey, StageParts, VerifiedStays, WholeOrAbsent
<1>1. CASE PublishBegin(w)
  BY <1>1 DEF PublishBegin
<1>6. CASE PublishMkdirFails(w)
  <2>1. litter' \in BOOLEAN
    BY <1>6 DEF PublishMkdirFails
  <2>2. events' \in Nat
    BY <1>6 DEF PublishMkdirFails, Inject
  <2> QED
    BY <1>6, <2>1, <2>2 DEF PublishMkdirFails
<1>2. CASE PublishCopy(w)
  BY <1>2 DEF PublishCopy
<1>3. CASE PublishManifest(w)
  BY <1>3 DEF PublishManifest
<1>4. CASE PublishVerify(w)
  BY <1>4 DEF PublishVerify
<1>5. CASE PublishFails(w)
  BY <1>5 DEF PublishFails, Inject
<1> QED
  BY <1>1, <1>2, <1>3, <1>4, <1>5, <1>6

(* The rename publishes a whole directory, or loses to one.                *)
LEMMA ReplaceKeeps ==
  ASSUME WorkersInv, NEW w \in Workers, PublishReplace(w)
  PROVE  WorkersInv'
<1> USE DEF Stage, Tree, Part, Whole, NoKey, CacheTypeOK, Goto, SetTemp, quotaVars, Valid, PublishRaises
<1>1. stage[w] = "replace" /\ temp[w] = Whole /\ target[w] \in Keys
  BY DEF WorkersInv, CallHasKey, StageParts, PublishReplace
<1>2. CASE Renames(w)
  BY <1>1, <1>2 DEF PublishReplace, Renames, WorkersInv, CallHasKey, StageParts, VerifiedStays, WholeOrAbsent
<1>3. CASE RenameRefused(w)
  BY <1>1, <1>3 DEF PublishReplace, RenameRefused, WorkersInv, CallHasKey, StageParts, VerifiedStays, WholeOrAbsent
<1> QED
  BY <1>2, <1>3 DEF PublishReplace

(* The end of a call, and the death of a process, leave the entries alone. *)
LEMMA EndKeeps ==
  ASSUME WorkersInv, NEW w \in Workers, Finish(w) \/ CacheCrash(w)
  PROVE  WorkersInv'
<1> USE DEF Stage, Tree, Part, Whole, NoKey, CacheTypeOK, Goto, SetTemp, quotaVars, EndCall,
            WorkersInv, CallHasKey, StageParts, VerifiedStays, WholeOrAbsent
<1>1. CASE Finish(w)
  BY <1>1 DEF Finish, Acknowledge
<1>2. CASE CacheCrash(w)
  BY <1>2 DEF CacheCrash, EndQuota, Inject
<1> QED
  BY <1>1, <1>2

(* The inductive step.                                                     *)
LEMMA NextInv ==
  ASSUME WorkersInv, [Next]_cacheVars
  PROVE  WorkersInv'
<1>1. CASE UNCHANGED cacheVars
  BY <1>1 DEF cacheVars, WorkersInv, CacheTypeOK, CallHasKey, StageParts, VerifiedStays, WholeOrAbsent
<1>2. ASSUME NEW w \in Workers, Step(w) \/ Fault(w)
      PROVE  WorkersInv'
  <2> QED
    BY <1>2, LookupKeeps, PrepareKeeps, ReplaceKeeps, EndKeeps
    DEF Step, Fault, PublishStep, PublishFault
<1> QED
  BY <1>1, <1>2 DEF Next

(* The inductive invariant, types included, holds in every state.          *)
THEOREM WorkersInvariant == Spec => []WorkersInv
<1>1. CacheInit => WorkersInv
  BY InitInv
<1>2. WorkersInv /\ [Next]_cacheVars => WorkersInv'
  BY NextInv
<1> QED
  BY <1>1, <1>2, PTL DEF Spec

(* Every entry directory is absent or whole, for any number of processes   *)
(* and keys, whatever dies or fails in whatever order.                     *)
THEOREM EntriesWhole == Spec => []WholeOrAbsent
<1>1. WorkersInv => WholeOrAbsent
  BY DEF WorkersInv
<1> QED
  BY <1>1, WorkersInvariant, PTL

(* So a directory that appears is complete, and no caller is handed a      *)
(* partial entry.                                                          *)
THEOREM PublicationsWhole == Spec => PublishedWhole
<1>1. WorkersInv /\ WorkersInv' /\ [Next]_cacheVars => [AppearsWhole]_cacheVars
  BY DEF WorkersInv, WholeOrAbsent, AppearsWhole
<1> QED
  BY <1>1, WorkersInvariant, PTL DEF Spec, PublishedWhole

(* What makes LosersSucceed inductive: every disturbance costs an event.   *)
Undisturbed == events <= MaxEvents /\ LosersSucceed

(* A step without a disturbance never comes to an error: a publication     *)
(* that finds its key taken finds a whole entry there.                     *)
LEMMA NoErrorByItself ==
  ASSUME WorkersInv, Undisturbed, NEW w \in Workers, Step(w)
  PROVE  Undisturbed'
<1> USE DEF Undisturbed, LosersSucceed, Goto, SetTemp, Stage
<1>1. ASSUME UNCHANGED events,
             events = MaxEvents => \E s \in Stage \ {"error"} : stage' = [stage EXCEPT ![w] = s]
      PROVE  Undisturbed'
  BY <1>1 DEF WorkersInv, CacheTypeOK
<1>2. CASE \E k \in Keys : Lookup(w, k)
  BY <1>1, <1>2 DEF Lookup
<1>3. CASE PublishBegin(w)
  BY <1>1, <1>3 DEF PublishBegin
<1>4. CASE PublishCopy(w)
  <2>1. "dir" \in temp[w]
    BY <1>4 DEF PublishCopy, WorkersInv, StageParts
  <2> QED
    BY <1>1, <1>4, <2>1 DEF PublishCopy
<1>5. CASE PublishManifest(w)
  BY <1>1, <1>5 DEF PublishManifest
<1>6. CASE PublishReplace(w)
  <2>1. temp[w] = Whole /\ target[w] \in Keys
    BY <1>6 DEF PublishReplace, WorkersInv, StageParts, CallHasKey
  <2>2. RenameRefused(w) => Valid(target[w])
    BY <2>1 DEF RenameRefused, WorkersInv, WholeOrAbsent, Valid, Whole, Part
  <2>3. \E s \in Stage \ {"error"} : stage' = [stage EXCEPT ![w] = s]
    BY <1>6, <2>2 DEF PublishReplace, Renames, RenameRefused
  <2> QED
    BY <1>1, <1>6, <2>3 DEF PublishReplace
<1>7. CASE PublishVerify(w)
  <2>1. Valid(target[w])
    BY <1>7 DEF PublishVerify, WorkersInv, VerifiedStays, Valid
  <2> QED
    BY <1>1, <1>7, <2>1 DEF PublishVerify
<1>8. CASE Touch(w)
  <2>1. entry[target[w]] = Whole
    BY <1>8 DEF Touch, Touched, WorkersInv, VerifiedStays
  <2>2. Touched[stage[w]] \in Stage \ {"error"} /\ "files" \in Whole
    BY <1>8 DEF Touch, Touched, Whole, Part
  <2> QED
    BY <1>1, <1>8, <2>1, <2>2 DEF Touch
<1>9. CASE Finish(w)
  BY <1>1, <1>9 DEF Finish, Acknowledge, EndCall
<1> QED
  BY <1>2, <1>3, <1>4, <1>5, <1>6, <1>7, <1>8, <1>9 DEF Step, PublishStep

(* A disturbance leaves fewer than there were at first.                    *)
LEMMA FaultsAreCounted ==
  ASSUME WorkersInv, Undisturbed, NEW w \in Workers, Fault(w)
  PROVE  Undisturbed'
<1>1. events' = events - 1 /\ events \in Nat /\ MaxEvents \in Nat
  BY LimitAssumption DEF Fault, PublishMkdirFails, PublishFault, PublishFails, TouchFails, CacheCrash, Inject,
     WorkersInv, CacheTypeOK
<1> QED
  BY <1>1 DEF Undisturbed, LosersSucceed

(* Losing the race for a key is not a failure, for any number of processes *)
(* and keys: without a fault no call ends in an error (publish).           *)
THEOREM LosersDoNotFail == Spec => []LosersSucceed
<1>1. CacheInit => Undisturbed
  BY LimitAssumption DEF CacheInit, Undisturbed, LosersSucceed
<1>2. WorkersInv /\ Undisturbed /\ [Next]_cacheVars => Undisturbed'
  <2> SUFFICES ASSUME WorkersInv, Undisturbed, [Next]_cacheVars PROVE Undisturbed'
    OBVIOUS
  <2>1. CASE UNCHANGED cacheVars
    BY <2>1 DEF cacheVars, Undisturbed, LosersSucceed
  <2>2. CASE Next
    BY <2>2, NoErrorByItself, FaultsAreCounted DEF Next
  <2> QED
    BY <2>1, <2>2
<1>3. Undisturbed => LosersSucceed
  BY DEF Undisturbed
<1> QED
  BY <1>1, <1>2, <1>3, WorkersInvariant, PTL DEF Spec
=============================================================================
