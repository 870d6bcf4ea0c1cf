SPECIFICATION DevicesSpec
CONSTANTS
  timer0 = timer0 timer2 = timer2
  Timer <- TwoTimers Inverted <- Timer2 Frequency <- FrequencyOf
  Waits = {1, 2} Target = {0, 2, 3} Stage2Size = 4 Stage3Size = 2
  Bits = 3 K = 2 HPeriod = 7 VPeriod = 5 Vdisp = 2 Begin = 2
  EpsonSecond = 3 RoundWindow = 2 DutyWindow = 2 FlagWindow = 2 AccessWait = 1
  EpsonStarts <- EpsonFew Offsets = {13} Writes <- EpsonWrites Away <- EpsonAway
  MaxSeconds = 2 MaxRestarts = 1
  SharpStarts <- SharpFew SharpDigits <- SharpSome SharpAway <- SharpGone
  SharpTicks = 1 SharpRestarts = 1
  LineClocks = 2 Scanlines = 2 LinearLine = 2 LinearLines = 2 Hcnt = 1 Vcnt = 0
  Width = 3 Pool = 4 Handler = {ram, chip} OpenBus = OpenBus None = None ram = ram chip = chip
  Regions <- BusRegions Layouts <- BusLayouts
  TimerModes <- Sa1Modes Controls <- Sa1Controls Enabling <- Sa1Enabling Clearing <- Sa1Clearing
INVARIANTS DevicesTypeOK LineFollows NoClockLost CountBelowTarget OncePerField
  TornReadDetected ClockKeepsTime SharpKeepsTime LineHeld HandlersReached
PROPERTIES StartsFromZero AutoReadWhole ChangesWhileBusy EndsInField EventsAccepted
CHECK_DEADLOCK FALSE
