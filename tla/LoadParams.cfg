SPECIFICATION Spec
CONSTANTS
  Params <- Two
  Rooms = {NoBuffer}
  NoBuffer = NoBuffer
  Tracks = {1}
  MaxKeys = 1
  Bottoms = {2}
  LoadAt <- SomePlaces
  Plans <- FewPlans
  LoadKeys = 1
INVARIANT StoredKeyIsRecognised
