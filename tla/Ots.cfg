SPECIFICATION Spec
CONSTANTS
  Builds <- AllBuilds
  Messages <- Three
  Digest <- Bytes
  MaxMade = 2
INVARIANTS TypeOK HistoryForgotten SecretsApart SeldomUsed SignaturesVerify OneMessageOnly
