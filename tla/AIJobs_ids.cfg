\* Nothing fails and every payload is in order: is every OCR job completed?
CONSTANTS
  j1 = j1
  j2 = j2
  j3 = j3
  w1 = w1
  w2 = w2
  w3 = w3
  NoJob = NoJob
  Jobs = {j1, j2, j3}
  Kind <- JobKinds
  Names <- JobNames
  Malformed = {}
  Silent = {}
  Raising = {}
  Workers = {w1, w2, w3}
  WorkerKind <- ConsumerKinds
  FaultBound = 0
SPECIFICATION FairSpec
PROPERTIES EveryOCRJobCompletes
CHECK_DEADLOCK FALSE
