SPECIFICATION Spec
CONSTANTS
  m = m
  s = s
  t = t
  c = c
  formatter = formatter
  own = own
  Manager = {m, own}
  Server = {s, t}
  Client = {c}
  PortOf <- OneDiskPort
  Target <- ToOneDisk
  Privileged = TRUE
  Killable = {m, s}
  BACKLOG = 1
  GONE = GONE
  NONE = NONE
INVARIANTS TypeOK OneOwner
PROPERTIES SessionEnds FormatEnds
CHECK_DEADLOCK FALSE
