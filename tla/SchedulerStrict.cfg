SPECIFICATION Spec
CONSTANTS
  CPU = CPU SMP = SMP PPU = PPU Host = Host cop = cop icd = icd
  CopSeq <- IcdOnly Late <- Cops Recreatable <- Cops
  Method = "Fast" ForceStrict = TRUE CheatWrites <- TwoCheats MayHalt = {}
  Slack = 1 Quantum <- QuantumOf CpuClocks <- Clocks
  MaxOps = 2 MainOps <- OpsOf ClockCap = 4 HPeriod = 2 VPeriod = 2 Vdisp = {0, 1} Overclock = 0
INVARIANTS IInv CaughtUp IdleIsResumable
PROPERTIES SavedAtSyncPoints
