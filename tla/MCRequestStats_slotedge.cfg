CONSTANTS
  NumThreads = 1
  kNumSlots = 3
  kTicksPerSlot = 2
  ticksPerSecond = 6
  MaxTick = 8
  MaxReq = 3
  TickBits = 8
SPECIFICATION Spec
INVARIANT
  UnexpiredSlotsCounted
