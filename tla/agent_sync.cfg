SPECIFICATION MCSpec
CONSTANTS
  i1 = i1
  i2 = i2
  m1 = m1
  w1 = w1
  w2 = w2
  Ips = {i1, i2}
  Manual = {m1}
  Workers = {w1, w2}
  Prefixes <- OneBegins
  Ops = {"ban", "unban", "addRule", "deleteRule", "config"}
  Present = {i2, m1}
  Faults = {"loss", "crash", "reboot"}
  MaxEvents = 2
INVARIANTS ManualAgrees ConfigLoaded
PROPERTIES OnlyItsRule Mirrored
CHECK_DEADLOCK FALSE
