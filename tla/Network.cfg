SPECIFICATION NetworkSpec
CONSTANTS
  Conns = {c1, c2, c3}
  Sources = {s1, s2}
  MaxStreams = 2
  MaxPending = 1
  Chunk = 2
  MaxGap = 3
  MinDelay = 1
  MaxDelay = 3
  MaxCapture = 8
  MaxSockets = 2
  MaxFlight = 2
  Phones = {p1, p2}
  Legs = {1, 2}
  MaxLost = 1
  Cuts = {1, 10, 25}
  MaxPut = 2
  SeqMod = 8
  FutureCap = 2
  Hold = 3
  First = 6
  MaxSent = 5
  HasFEC = TRUE
  Target = 2
  High = 4
  WriteSizes = {1, 3, 5}
  ReadSizes = {1, 3}
  MaxWritten = 12
INVARIANTS StreamsOwned ReturnedClean SoundInPlace SoundInOrder PairedOnce MediaTypes PlayedInPlace StatsMatchOutput AcceptedNotConcealed HeldAhead RingHoldsNewest FramesAccounted
PROPERTIES CancelReturns SenderHeard RelayHostFound DeadSpliceEnds ReadAsWritten HeldIsPlayed RingIsQueue FullBufferPlays
CHECK_DEADLOCK FALSE
