SPECIFICATION Spec
CONSTANTS
  Requests <- AllRequests
  HashSize = 4
  PublicKeyLen = 7
  SizeofKey = 46
  SizeofLevel = 59
  SizeofSubtree = 5
  MALLOC_OVERHEAD = 1
INVARIANTS WellShaped PlanIsExact NothingLeaks
