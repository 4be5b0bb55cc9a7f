SPECIFICATION StateSpec
CONSTANTS
  Requests = {r1, r2, r3}
  Jobs = {j1, j2}
  Slots = 2
  NoJob = NoJob
  Emitters = {e1, e2}
  Subscribers = {s1, s2}
  Capacity = 2
  MaxEvents = 2
  Clients <- MCServer
  Server <- MCServer
  Attempts = 8
  MaxOps = 4
  MaxFaults = 1
INVARIANTS SlotsExact JobsHonest NoSendOnClosed StreamsFaithful
  UpdatesKept MemoryWhole RowsKept
PROPERTIES EveryJobFinishes Delivered WritesEnd
CHECK_DEADLOCK FALSE
