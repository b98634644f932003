\* Two failures of the environment.  The first payload carries no id and is reported to
\* nobody, the second is in order and the ranking of the third raises; both carry the id
\* of the first row.  All jobs may be done: the system then waits.
CONSTANTS
  j1 = j1
  j2 = j2
  j3 = j3
  w1 = w1
  w2 = w2
  w3 = w3
  NoJob = NoJob
  Jobs = {j1, j2, j3}
  Kind <- JobKinds
  Names <- JobNames
  Malformed = {j1}
  Silent = {j1}
  Raising = {j3}
  Workers = {w1, w2, w3}
  WorkerKind <- ConsumerKinds
  FaultBound = 2
SPECIFICATION FairSpec
INVARIANTS TypeOK NeverGivenUpEarly
PROPERTIES EveryRetryEnds
CHECK_DEADLOCK FALSE
