CONSTANTS
  Element = {a, b, c, d}
  Nil = Nil
  InitCapacity = 3
  Base = 8
  MaxPacketSize = 5
  BufSize = 4096
SPECIFICATION DataSpec
INVARIANT SplitsAll
SYMMETRY ElementSymmetry
