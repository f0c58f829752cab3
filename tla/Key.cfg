SPECIFICATION Spec
CONSTANTS
  Keys = {k1, k2}
  Ctxs = {c1, c2}
  NoCtx = NoCtx
  MaxCount = 3
  AllOnes = 15
  Reservations = {0, 2}
SYMMETRY Symmetry
INVARIANTS TypeOK NoReuse StoredAhead IInv
PROPERTIES PromiseKept TrashedKeyIsDead NeverBackwards OneTime
