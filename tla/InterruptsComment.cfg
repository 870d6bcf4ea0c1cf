SPECIFICATION Spec
CONSTANTS
  HPeriod = 6 VPeriod = 2 Vdisp = 1 Vtimes = {1} Htimes = {2}
  Enables <- SomeEnables Before <- Shortest DmaTicks = {4} MaxEdges = 2 ResetTicks = 3
PROPERTIES DmaDelaysInterrupts
