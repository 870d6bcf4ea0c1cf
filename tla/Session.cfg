SPECIFICATION Spec
CONSTANTS
  UserSlots = {"Slot"} Frequencies = {0, 8} Length = 2
INVARIANTS RewindGoesBack RendererAgrees
PROPERTIES RewindEnds
