SPECIFICATION LiveSpec
CONSTANTS
  c1 = c1
  c2 = c2
  Clients = {c1, c2}
  Pages <- MCPages
  Domains = {d1, d2}
  Default = d1
  Workers = {w1, w2}
  Faults = {"loss", "link", "silence", "drop", "restart"}
  MaxEvents = 2
PROPERTIES PagesFollow LinkRestored
CHECK_DEADLOCK FALSE
