SPECIFICATION Spec
CONSTANTS
  Params <- UpToThree
  Rooms = {NoBuffer, 0, 10}
  NoBuffer = NoBuffer
  Tracks = {1, 2}
  MaxKeys = 2
  Bottoms = {2, 3}
  LoadAt <- SomePlaces
  Plans <- FewPlans
  LoadKeys = 1
INVARIANTS KeygenTypeOK AuxIsRight PublicKeyIsRoot EachNodeOnce LoadedRight ParametersAgree
