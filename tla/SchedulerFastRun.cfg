SPECIFICATION FairSpec
CONSTANTS
  CPU = CPU SMP = SMP PPU = PPU Host = Host cop = cop icd = icd
  CopSeq <- NoCops Late <- Cops Recreatable <- Cops
  Method = "Fast" ForceStrict = FALSE CheatWrites <- PortCheat MayHalt <- Stoppable
  Slack = 0 Quantum <- QuantumOf CpuClocks <- Clocks
  MaxOps = 2 MainOps <- OpsFew ClockCap = 2 HPeriod = 2 VPeriod = 2 Vdisp = {1} Overclock = 0
PROPERTIES FrameEventually ControlReturns
