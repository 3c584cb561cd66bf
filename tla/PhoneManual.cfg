SPECIFICATION PhoneSpec
CONSTANTS
  Senders = {a, b}
  MaxPosted = 2
  MaxEvents = 6
  Networks <- MCNetworks
  BoundsChoices <- MCBounds
  ManualChoices = {8, 200}
  FallRate = 40
  RiseRate = 60
  HoldAfterChange = 0
  ImprovementHold = 1
  MaxSettings = 2
  Appenders = 2
  MaxPending = 2
  MaxAppends = 5
  MaxRecordings = 2
  PacketFrames = 2
  MaxWindow = 2
  TwoSeconds = 1
  MaxSeq = 6
  MaxFlight = 2
  MaxFaults = 1
  Frames = 5
  Scale = 4
  Ratios = {3, 4, 5}
  Packets = {1, 2, 5}
  Callbacks = {1, 3}
  MaxFrames = 8
INVARIANT ManualInRange
CHECK_DEADLOCK FALSE
