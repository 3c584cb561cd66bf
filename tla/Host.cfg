SPECIFICATION HostSpec
CONSTANTS
  Receivers = {r1, r2}
  Devices = {d1}
  MaxSwitches = 2
  MaxFrames = 1
  OpusMs = 20
  MaxGen = 3
  MaxPresets = 2
  Quantum = 2
  SizeBytes = 7
  Blocks = {1, 2, 5, 9}
  Reads = {2, 5}
  MaxBytes = 15
INVARIANTS CaptureIsSelection CapturesOwned CaptureIntact
PROPERTIES SoundComesBack PresetTakesEffect
CHECK_DEADLOCK FALSE
