SPECIFICATION RunSpec
CONSTANTS
  CPU = CPU SMP = SMP PPU = PPU Host = Host cop = cop icd = icd
  CopSeq <- CopsBoth Late <- LateBoth Recreatable <- CopOnly
  Method = "Fast" ForceStrict = TRUE CheatWrites <- TwoCheats MayHalt <- Stoppable
  Slack = 1 Quantum <- QuantumOf CpuClocks <- Clocks
  MaxOps = 2 MainOps <- OpsOf ClockCap = 9 HPeriod = 2 VPeriod = 2 Vdisp = {1} Overclock = 2
INVARIANTS RomProtected CoprocessorsKeepUp LagBounded
PROPERTIES PortOrder VirtualTimeKept
