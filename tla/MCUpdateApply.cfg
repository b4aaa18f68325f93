SPECIFICATION FairSpec
CONSTANTS
  MaxVersion = 3
  WindowsMax = 2
  MaxCrashes = 1
  None = None
INVARIANTS RecordSettles
PROPERTIES  ServiceResumes
CHECK_DEADLOCK FALSE
