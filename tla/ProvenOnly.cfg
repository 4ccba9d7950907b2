SPECIFICATION Spec
CHECK_DEADLOCK FALSE
CONSTANTS
  Registry <- MCRegistry
  Evidence <- MCEvidence
  Hardware <- MCHardware
  FreeMemory <- MCFreeMemory
  Mix <- MCMix
  Requests <- MCRequests
  Arguments <- MCArguments
  Voices <- MCVoices
  RawCurves <- MCRawCurves
  Samples <- MCSamples
  Report <- MCReport
  ChunkPlans <- MCChunkPlans
  Outcomes <- MCOutcomes
  Scores <- MCScores
  Loudness <- MCLoudness
INVARIANTS
  ProvenOnly
