SPECIFICATION BufSpec
CONSTANTS
  Users = {u1, u2}
  u1 = u1
  u2 = u2
  Sizes <- MCSizes
  MaxPoolPerClass = 2
  Requests = {1, 2, 3}
  MaxCap = 3
SYMMETRY UserSymmetry
INVARIANT OwnBytes
