------------------------------- MODULE Compute -------------------------------
(***************************************************************************)
(* svc_engine/compute as operators: the devices of a machine, the evidence *)
(* of what has run on them, the device that evidence allows a component,   *)
(* and the retries that ask for less memory each time.                     *)
(*                                                                         *)
(* Evidence is a set of entries [backend, level]; an implementation's are  *)
(* [implementation, backend, level].                                       *)
(***************************************************************************)
EXTENDS Integers, Sequences, FiniteSetsExt, SequencesExt

-----------------------------------------------------------------------------
(* devices.py *)

ComputeBackend == {"cuda", "xpu", "cpu"}
PREFERENCE     == <<"cuda", "xpu", "cpu">>

\* Accelerators that answer, when torch can be imported at all; always the CPU.
Detect(torch, answering) == {"cpu"} \cup (IF torch THEN answering ELSE {})

\* The first of PREFERENCE that is allowed and there, and else the CPU.
Select(allowed, present) ==
  LET i == SelectInSeq(PREFERENCE, LAMBDA b : b \in allowed \cap present)
  IN  IF i = 0 THEN "cpu" ELSE PREFERENCE[i]

-----------------------------------------------------------------------------
(* support.py *)

Component    == {"separation", "f0", "conversion", "pitch_shift"}
ProofLevel   == {"none", "ops", "end_to_end"}
PROOF_ORDER  == [none |-> 0, ops |-> 1, end_to_end |-> 2]
MIN_PROOF    == "end_to_end"

Proof(entries, b) ==
  IF b = "cpu" THEN "end_to_end"
  ELSE IF \E x \in entries : x.backend = b THEN (CHOOSE x \in entries : x.backend = b).level
  ELSE "none"
\* Of one exact implementation, never of a sibling.
ImplementationProof(entries, i, b) == Proof({x \in entries : x.implementation = i}, b)

Suffices(level) == PROOF_ORDER[level] >= PROOF_ORDER[MIN_PROOF]
AllowedBackends(s) == {b \in ComputeBackend : Suffices(Proof(s.proofs, b))}
AllowedBackendsForImplementation(s, i) ==
  {b \in ComputeBackend : Suffices(ImplementationProof(s.implementation_proofs, i, b))}

DeviceFor(matrix, c, present) == Select(AllowedBackends(matrix[c]), present)
DeviceForImplementation(matrix, c, i, present) ==
  Select(AllowedBackendsForImplementation(matrix[c], i), present)

DEFAULTS == [c \in Component |-> [proofs |-> {}, implementation_proofs |-> {}]]
Unreadable == <<>>               \* a data file that is missing or does not parse

\* What names no known backend or level is passed over, and so is a component
\* the program does not know; one the file leaves out has no evidence.
ParseProofs(entries) == {x \in entries : x.backend \in ComputeBackend /\ x.level \in ProofLevel}
LoadMatrix(file) ==
  IF file = Unreadable THEN DEFAULTS
  ELSE [c \in Component |->
          IF c \notin DOMAIN file THEN DEFAULTS[c]
          ELSE [proofs |-> ParseProofs(file[c].proofs),
                implementation_proofs |-> ParseProofs(file[c].implementation_proofs)]]

-----------------------------------------------------------------------------
(* verify.py *)

WORKLOAD_COMPONENTS == {"separation", "f0", "conversion"}

Ran(i, whole) == [implementation |-> i, end_to_end |-> whole, production_eligible |-> FALSE]
WorkloadSeparation == Ran("roformer-operator-set", FALSE)
WorkloadF0(fcpe)   == IF fcpe THEN Ran("torchfcpe", TRUE) ELSE Ran("f0-operator-set", FALSE)
WorkloadConversion == Ran("rvc-operator-set", FALSE)
Workload(c, fcpe)  ==
  CASE c = "separation" -> WorkloadSeparation [] c = "f0" -> WorkloadF0(fcpe)
    [] c = "conversion" -> WorkloadConversion

\* ok holds the <<component, device>> whose workload did not raise.
VerifyAll(ok, fcpe, present) ==
  [c \in WORKLOAD_COMPONENTS |->
     {[device |-> d, run |-> Workload(c, fcpe)] : d \in {x \in present : <<c, x>> \in ok}}]

RawLevel(run) == IF run.end_to_end THEN "end_to_end" ELSE "ops"
GenericLevel(run) ==
  IF run.end_to_end /\ run.production_eligible THEN "end_to_end" ELSE "ops"

\* Only the accelerators are recorded.  The payload replaces the whole file.
BuildSupportPayload(results) ==
  [c \in Component |->
     LET shown == IF c \in DOMAIN results THEN {r \in results[c] : r.device # "cpu"} ELSE {}
     IN  [proofs |-> {[backend |-> r.device, level |-> GenericLevel(r.run)] : r \in shown},
          implementation_proofs |->
            {[implementation |-> r.run.implementation, backend |-> r.device,
              level |-> RawLevel(r.run)] : r \in shown}]]

-----------------------------------------------------------------------------
(* memory.py: gigabytes free, or Unknown where it cannot be measured *)

Unknown == -1
SEGMENT_BY_MEMORY == <<<<16, 512>>, <<10, 384>>, <<6, 256>>, <<4, 128>>, <<0, 64>>>>

\* Only accelerators are sized down; the processor has the page file.
SuggestedSegmentSize(backend, free, default) ==
  IF backend = "cpu" \/ free = Unknown THEN default
  ELSE LET row == SEGMENT_BY_MEMORY[SelectInSeq(SEGMENT_BY_MEMORY, LAMBDA x : free >= x[1])]
       IN  IF row[2] < default THEN row[2] ELSE default

-----------------------------------------------------------------------------
(* oom.py *)

MIN_SEGMENT_SIZE == 32

\* Mutant: the card is tried again and again, the processor never.
OomLadderOnCard(plan, cpu_fallback) ==
  <<plan, [plan EXCEPT !.batch_size = 1, !.overlap = 1, !.segment_size = MIN_SEGMENT_SIZE]>>

\* A plan, then the same with one more knob turned down, for every knob that
\* can be turned down at all.
OomLadder(plan, cpu_fallback) ==
  LET half == plan.segment_size \div 2
      p1 == [plan EXCEPT !.segment_size =
               IF @ <= MIN_SEGMENT_SIZE THEN @ ELSE IF half > MIN_SEGMENT_SIZE THEN half ELSE MIN_SEGMENT_SIZE]
      p2 == [p1 EXCEPT !.batch_size = 1]
      p3 == [p2 EXCEPT !.overlap = 1]
      p4 == [p3 EXCEPT !.backend = IF cpu_fallback THEN "cpu" ELSE @]
      Unless(same, p) == IF same THEN <<>> ELSE <<p>>
  IN  <<plan>> \o Unless(p1 = plan, p1) \o Unless(p2 = p1, p2) \o Unless(p3 = p2, p3)
               \o Unless(p4 = p3, p4)
==============================================================================
