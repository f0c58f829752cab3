SPECIFICATION Spec
CONSTANTS
  Params <- One
  Rooms = {2}
  NoBuffer = NoBuffer
  Tracks = {1}
  MaxKeys = 1
  Bottoms = {2}
  LoadAt <- SomePlaces
  Plans <- FewPlans
  LoadKeys = 1
INVARIANT AuxIsRight
