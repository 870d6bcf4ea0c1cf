SPECIFICATION Spec
CONSTANTS
  CPU = CPU SMP = SMP PPU = PPU Host = Host cop = cop icd = icd
  CopSeq <- NoCops Late <- Cops Recreatable <- Cops
  Method = "Fast" ForceStrict = FALSE CheatWrites <- TwoCheats MayHalt = {}
  Slack = 1 Quantum <- QuantumOf CpuClocks <- Clocks
  MaxOps = 2 MainOps <- OpsOf ClockCap = 4 HPeriod = 2 VPeriod = 2 Vdisp = {1} Overclock = 0
PROPERTIES SavedAtSyncPoints
