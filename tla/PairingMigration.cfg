SPECIFICATION PairingSpec
CONSTANTS
  MaxDials = 3
  Faults = {"drop", "forget", "badPin", "stop"}
  Devices = {p1, p2}
  MaxTries = 2
  Peers = {h1, h2}
  MaxIds = 3
  None = None
  Nil = Nil
  Receivers = {r1}
  Hosts = {v2}
  Burst = 2
  Interval = 2
  Timeout = 2
  Resend = 1
  MaxPeers = 1
  Addrs = {0, 2}
  Announced = {2}
  MaxTime = 4
  MaxAnswers = 1
PROPERTIES MigrationNeverClobbers
CHECK_DEADLOCK FALSE
