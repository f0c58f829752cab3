SPECIFICATION Spec
CONSTANTS
  Keys = {k1, k2}
  Ctxs = {c1}
  NoCtx = NoCtx
  MaxCount = 3
  AllOnes = 15
  Reservations = {0, 2}
INVARIANT ReservesWhatIsLeft
