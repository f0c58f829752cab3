SPECIFICATION Spec
CONSTANTS
  Requests <- EightLevels
  HashSize = 4
  PublicKeyLen = 7
  SizeofKey = 46
  SizeofLevel = 59
  SizeofSubtree = 5
  MALLOC_OVERHEAD = 1
INVARIANT NothingLeaks
