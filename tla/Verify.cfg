SPECIFICATION Spec
CONSTANTS
  LmHeight <- Heights
  OtsTypes = {1, 2}
  MaxLevels = 3
  Pieces = {"a", "b"}
  MaxPieces = 2
  Messages <- TwoMessages
  Applications <- AllApplications
  Beyond <- AnyMemory
INVARIANTS TypeOK
PROPERTIES AcceptsOnlyChains NothingOutlivesTheCall KeepsPromise
