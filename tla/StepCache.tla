------------------------------ MODULE StepCache ------------------------------
(***************************************************************************)
(* The step cache (svc_engine/jobs/cache.py): a directory per cache key,   *)
(* shared by every engine process of one installation.  A publication is   *)
(* built in a temporary directory and renamed into place; a lookup         *)
(* verifies the entry and then rewrites its manifest to move it to the     *)
(* young end of the eviction order; the quota removes entries file by      *)
(* file; a starting process sweeps away every temporary directory.         *)
(*                                                                         *)
(* A directory is the set of its parts.  The bytes of the outputs are one  *)
(* part, "files"; a hash mismatch and a missing output are the same fact   *)
(* (the part is not there), because _entry_from_manifest treats them alike.*)
(* Every filesystem call that another process can run between is a step.   *)
(***************************************************************************)
EXTENDS Integers, FiniteSets

CONSTANTS
  Workers,      \* processes that use the cache
  Keys,         \* cache keys (SHA-256 digests in the code)
  Limit,        \* the quota, in entries: every entry weighs one unit
  MaxEvents     \* bound: disturbances (faults, deaths, user interventions)

ASSUME WorkersAssumption == Workers # {} /\ IsFiniteSet(Keys) /\ "none" \notin Keys
ASSUME LimitAssumption == Limit \in Nat /\ MaxEvents \in Nat

VARIABLES
  entry,        \* entry[k]: the parts present in the directory of key k
  temp,         \* temp[w]: the parts of w's own temporary directory
  litter,       \* some dead process left a temporary directory behind
  stage,        \* stage[w]: where w stands inside a cache call
  target,       \* target[w]: the key that call is about
  todo,         \* todo[w]: children rmtree listed and has not unlinked yet
  victims,      \* victims[w]: candidates of w's quota scan not yet visited
  total,        \* total[w]: w's running estimate of the cache size
  events        \* disturbances the environment may still cause

cacheVars == <<entry, temp, litter, stage, target, todo, victims, total, events>>

NoKey == "none"
Part  == {"dir", "files", "manifest"}
Whole == Part
Tree  == {s \in SUBSET Part : s # {} => "dir" \in s}

Stage == {"idle", "touchHit", "hit", "miss",
          "copy", "manifest", "replace", "verify", "touchDone", "done", "error",
          "quota", "remove"}

CacheTypeOK ==
  /\ entry   \in [Keys -> Tree]
  /\ temp    \in [Workers -> Tree]
  /\ litter  \in BOOLEAN
  /\ stage   \in [Workers -> Stage]
  /\ target  \in [Workers -> Keys \cup {NoKey}]
  /\ todo    \in [Workers -> SUBSET Part]
  /\ victims \in [Workers -> SUBSET Keys]
  /\ total   \in [Workers -> Int]
  /\ events  \in Nat

CacheInit ==
  /\ entry   = [k \in Keys |-> {}]
  /\ temp    = [w \in Workers |-> {}]
  /\ litter  = FALSE
  /\ stage   = [w \in Workers |-> "idle"]
  /\ target  = [w \in Workers |-> NoKey]
  /\ todo    = [w \in Workers |-> {}]
  /\ victims = [w \in Workers |-> {}]
  /\ total   = [w \in Workers |-> 0]
  /\ events  = MaxEvents

quotaVars == <<todo, victims, total>>

Valid(k) == entry[k] = Whole

Goto(w, s)  == stage' = [stage EXCEPT ![w] = s]
SetTemp(w, d) == temp' = [temp EXCEPT ![w] = d]
Inject      == events > 0 /\ events' = events - 1

-----------------------------------------------------------------------------
(* lookup *)

\* Mutant: an entry with a manifest is taken for whole.
LookupTrustsManifest(w, k) ==
  /\ stage[w] = "idle"
  /\ target' = [target EXCEPT ![w] = k]
  /\ Goto(w, IF "manifest" \in entry[k] THEN "touchHit" ELSE "miss")
  /\ UNCHANGED <<entry, temp, litter, quotaVars, events>>

\* Read and verify; on success the manifest is still to be rewritten.
Lookup(w, k) ==
  /\ stage[w] = "idle"
  /\ target' = [target EXCEPT ![w] = k]
  /\ Goto(w, IF Valid(k) THEN "touchHit" ELSE "miss")
  /\ UNCHANGED <<entry, temp, litter, quotaVars, events>>

Touched == [touchHit |-> "hit", touchDone |-> "done"]

\* The rewrite goes through atomic_write_json, which recreates a missing parent
\* directory; the reread then raises ValueError, which lookup does not catch.
Touch(w) ==
  LET k == target[w] IN
  /\ stage[w] \in DOMAIN Touched
  /\ entry' = [entry EXCEPT ![k] = @ \cup {"dir", "manifest"}]
  /\ Goto(w, IF "files" \in entry[k] THEN Touched[stage[w]] ELSE "error")
  /\ SetTemp(w, {})
  /\ UNCHANGED <<litter, target, quotaVars, events>>

\* A rewrite that fails with OSError leaves a valid hit (a read-only cache).
TouchFails(w) ==
  /\ stage[w] \in DOMAIN Touched
  /\ Inject
  /\ Goto(w, Touched[stage[w]])
  /\ SetTemp(w, {})
  /\ UNCHANGED <<entry, litter, target, quotaVars>>

-----------------------------------------------------------------------------
(* publish *)

PublishBegin(w) ==
  /\ stage[w] = "miss"
  /\ IF Valid(target[w])
       THEN Goto(w, "touchDone") /\ UNCHANGED temp
       ELSE Goto(w, "copy") /\ SetTemp(w, {"dir"})
  /\ UNCHANGED <<entry, litter, target, quotaVars, events>>

\* The temporary directory is made outside the try: what there is of it stays.
PublishMkdirFails(w) ==
  /\ stage[w] = "miss" /\ ~Valid(target[w])
  /\ Inject
  /\ Goto(w, "error")
  /\ litter' \in {litter, TRUE}
  /\ UNCHANGED <<entry, temp, target, quotaVars>>

PublishRaises(w) == Goto(w, "error") /\ SetTemp(w, {})

\* Mutant: the directory is renamed before its manifest is written.
PublishCopySkipsManifest(w) ==
  /\ stage[w] = "copy"
  /\ IF "dir" \in temp[w]
       THEN Goto(w, "replace") /\ SetTemp(w, temp[w] \cup {"files"})
       ELSE PublishRaises(w)
  /\ UNCHANGED <<entry, litter, target, quotaVars, events>>

PublishCopy(w) ==
  /\ stage[w] = "copy"
  /\ IF "dir" \in temp[w]
       THEN Goto(w, "manifest") /\ SetTemp(w, temp[w] \cup {"files"})
       ELSE PublishRaises(w)
  /\ UNCHANGED <<entry, litter, target, quotaVars, events>>

\* atomic_write_json creates the parent directory again if it is gone.
PublishManifest(w) ==
  /\ stage[w] = "manifest"
  /\ Goto(w, "replace")
  /\ SetTemp(w, temp[w] \cup {"dir", "manifest"})
  /\ UNCHANGED <<entry, litter, target, quotaVars, events>>

\* A rename onto an empty directory is allowed by POSIX and refused by Windows.
Renames(w) ==
  /\ temp[w] # {}
  /\ entry[target[w]] \in {{}, {"dir"}}
  /\ entry' = [entry EXCEPT ![target[w]] = temp[w]]
  /\ SetTemp(w, {})
  /\ Goto(w, "verify")

\* Mutant: a refused rename is an error, whoever won.
RenameRefusedRaises(w) ==
  /\ temp[w] = {} \/ entry[target[w]] # {}
  /\ PublishRaises(w)
  /\ UNCHANGED entry

\* A refused rename is a lost race when the winner's entry verifies.
RenameRefused(w) ==
  /\ temp[w] = {} \/ entry[target[w]] # {}
  /\ IF Valid(target[w])
       THEN Goto(w, "touchDone") /\ UNCHANGED temp
       ELSE PublishRaises(w)
  /\ UNCHANGED entry

PublishReplace(w) ==
  /\ stage[w] = "replace"
  /\ Renames(w) \/ RenameRefused(w)
  /\ UNCHANGED <<litter, target, quotaVars, events>>

PublishVerify(w) ==
  /\ stage[w] = "verify"
  /\ IF Valid(target[w])
       THEN Goto(w, "touchDone") /\ UNCHANGED temp
       ELSE PublishRaises(w)
  /\ UNCHANGED <<entry, litter, target, quotaVars, events>>

\* Disk full, a missing output, a locked file: the temporary is removed again.
PublishFails(w) ==
  /\ stage[w] \in {"copy", "manifest", "replace"}
  /\ Inject
  /\ PublishRaises(w)
  /\ UNCHANGED <<entry, litter, target, quotaVars>>

PublishStep(w) ==
  \/ PublishCopy(w) \/ PublishManifest(w) \/ PublishReplace(w)
  \/ PublishVerify(w) \/ Touch(w)
PublishFault(w) == PublishFails(w) \/ TouchFails(w)

\* The caller takes the result of a finished call.
EndCall(w) == Goto(w, "idle") /\ target' = [target EXCEPT ![w] = NoKey]
Acknowledge(w, results) == stage[w] \in results /\ EndCall(w)

-----------------------------------------------------------------------------
(* remove_abandoned_temporaries *)

Remnants(d) == {r \in Tree : r \subseteq d}

\* Live temporaries match the glob as well as abandoned ones.  rmtree runs
\* beside their owners and ignores errors: any part may survive it.
Sweep(w) ==
  /\ stage[w] = "idle"
  /\ temp' \in {t \in [Workers -> Tree] :
                  \A u \in Workers : t[u] \in IF u = w THEN {temp[w]} ELSE Remnants(temp[u])}
  /\ litter' = FALSE
  /\ UNCHANGED <<entry, stage, target, quotaVars, events>>

-----------------------------------------------------------------------------
(* enforce_limit *)

Present == {k \in Keys : entry[k] # {}}

\* Mutant: the scan overlooks directories without a readable manifest.
QuotaScanSkipsCorrupt(w, protected) ==
  /\ stage[w] = "idle"
  /\ Goto(w, "quota")
  /\ victims' = [victims EXCEPT ![w] = {k \in Keys : Valid(k)} \ protected]
  /\ total'   = [total EXCEPT ![w] = Cardinality({k \in Keys : Valid(k)})]
  /\ UNCHANGED <<entry, temp, litter, target, todo, events>>

QuotaScan(w, protected) ==
  /\ stage[w] = "idle"
  /\ Goto(w, "quota")
  /\ victims' = [victims EXCEPT ![w] = Present \ protected]
  /\ total'   = [total EXCEPT ![w] = Cardinality(Present)]
  /\ UNCHANGED <<entry, temp, litter, target, todo, events>>

QuotaOver(w) == total[w] > Limit /\ victims[w] # {}

\* Any candidate may be the least recently used one.
QuotaNext(w) ==
  /\ stage[w] = "quota"
  /\ QuotaOver(w)
  /\ \E k \in victims[w] :
       /\ victims' = [victims EXCEPT ![w] = @ \ {k}]
       /\ target'  = [target EXCEPT ![w] = k]
       /\ todo'    = [todo EXCEPT ![w] = entry[k] \ {"dir"}]
  /\ Goto(w, "remove")
  /\ UNCHANGED <<entry, temp, litter, total, events>>

\* The quota returns or raises: its local state is gone.
EndQuota(w) ==
  /\ EndCall(w)
  /\ todo'    = [todo EXCEPT ![w] = {}]
  /\ victims' = [victims EXCEPT ![w] = {}]
  /\ total'   = [total EXCEPT ![w] = 0]

\* rmtree unlinks what it listed; a child that is gone raises and ends the quota.
RemoveChild(w) ==
  LET k == target[w] IN
  /\ stage[w] = "remove"
  /\ \E p \in todo[w] :
       IF p \in entry[k]
         THEN /\ entry' = [entry EXCEPT ![k] = @ \ {p}]
              /\ todo'  = [todo EXCEPT ![w] = @ \ {p}]
              /\ UNCHANGED <<stage, target, victims, total>>
         ELSE EndQuota(w) /\ UNCHANGED entry
  /\ UNCHANGED <<temp, litter, events>>

\* Mutant: the directory goes before its children.
RemoveDirFirst(w) ==
  /\ stage[w] = "remove"
  /\ entry' = [entry EXCEPT ![target[w]] = @ \ {"dir"}]
  /\ total' = [total EXCEPT ![w] = @ - 1]
  /\ Goto(w, "quota")
  /\ UNCHANGED <<temp, litter, target, todo, victims, events>>

RemoveDir(w) ==
  LET k == target[w] IN
  /\ stage[w] = "remove" /\ todo[w] = {}
  /\ IF entry[k] = {"dir"}
       THEN /\ entry' = [entry EXCEPT ![k] = {}]
            /\ total' = [total EXCEPT ![w] = @ - 1]
            /\ Goto(w, "quota")
            /\ UNCHANGED <<todo, target, victims>>
       ELSE EndQuota(w) /\ UNCHANGED entry
  /\ UNCHANGED <<temp, litter, events>>

\* An antivirus holds a file: the removal stops half way and raises.
RemoveLocked(w) ==
  /\ stage[w] = "remove"
  /\ Inject
  /\ EndQuota(w)
  /\ UNCHANGED <<entry, temp, litter>>

QuotaDone(w) ==
  /\ stage[w] = "quota" /\ ~QuotaOver(w)
  /\ EndQuota(w)
  /\ UNCHANGED <<entry, temp, litter, events>>

QuotaStep(w) == QuotaNext(w) \/ RemoveChild(w) \/ RemoveDir(w) \/ QuotaDone(w)

-----------------------------------------------------------------------------
(* The process dies: its temporary directory stays. *)
CacheCrash(w) ==
  /\ Inject
  /\ EndQuota(w)
  /\ litter' = (litter \/ temp[w] # {})
  /\ SetTemp(w, {})
  /\ UNCHANGED entry

-----------------------------------------------------------------------------
(***************************************************************************)
(* A directory that appears under a key is complete: "Immutable entry      *)
(* directories published only after every output is durable" (the          *)
(* docstring of StepCache).                                                *)
(***************************************************************************)
AppearsWhole == \A k \in Keys : entry[k] = {} /\ entry'[k] # {} => entry'[k] = Whole
PublishedWhole == [][AppearsWhole]_cacheVars

(***************************************************************************)
(* No caller is handed a partial entry: when lookup or publish returns,    *)
(* every output of the entry is there ("Never consume a partial/corrupt    *)
(* cache entry").                                                          *)
(***************************************************************************)
HandsOutWhole ==
  \A w \in Workers : stage'[w] \in {"hit", "done"} /\ stage'[w] # stage[w]
                       => "files" \in entry'[target[w]]
NeverConsumePartial == [][HandsOutWhole]_cacheVars
=============================================================================
