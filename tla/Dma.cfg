SPECIFICATION UnitsSpec
CONSTANTS
  NC = 2 Indirect = {1} Lengths = {1, 2} Bus = {4} Lap = 4
  HPeriod = 74 VPeriod = 3 Vdisp = 2 SetupBase = 6 RunAt = 63
  W = 2 Factors = {0, 1, 2, 3}
  BlockCount = 2 BlockIds = 2 LastCell = 1 FlashBits = {0} MaxRun = 1
INVARIANTS HdmaFirst NoneForgotten AluExact ErasedIsBlank
PROPERTIES NoRequestLost LockedIsKept
