------------------------------ MODULE JobLedger ------------------------------
(***************************************************************************)
(* What the durable job runner promises, without steps, snapshots or       *)
(* files.  A job is open, done or cancelled.  Results are banked one by    *)
(* one; the runner holds those its current job has reached, and a held     *)
(* result is not dropped.  A job is closed as done only while every result *)
(* of one of its plans is held, and only an open job is closed.            *)
(***************************************************************************)
CONSTANTS Jobs, Keys, PlanKeySets   \* PlanKeySets[j]: the key sets of j's plans

VARIABLES status, bank, held

ledger == <<status, bank, held>>

Init ==
  /\ status = [j \in Jobs |-> "new"]
  /\ bank = {}
  /\ held = {}

SetStatus(j, s) == status' = [status EXCEPT ![j] = s] /\ UNCHANGED <<bank, held>>

\* A job is opened by its first run, and again by any later one; a job whose
\* completion could not be recorded falls back to open.
Open(j)   == SetStatus(j, "open")
Close(j)  == status[j] = "open" /\ (\E ks \in PlanKeySets[j] : ks \subseteq held) /\ SetStatus(j, "done")
Cancel(j) == status[j] = "open" /\ SetStatus(j, "cancelled")

Bank(k) == bank' = bank \cup {k} /\ UNCHANGED <<status, held>>
Drop(k) == k \notin held /\ bank' = bank \ {k} /\ UNCHANGED <<status, held>>
Hold    == held' \in SUBSET bank /\ UNCHANGED <<status, bank>>

Next ==
  \/ \E j \in Jobs : Open(j) \/ Close(j) \/ Cancel(j)
  \/ \E k \in Keys : Bank(k) \/ Drop(k)
  \/ Hold

Spec == Init /\ [][Next]_ledger
=============================================================================
