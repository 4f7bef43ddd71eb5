SPECIFICATION SignalSpec
CONSTANTS
  Emitter = {gui, worker}
  Slot = {s1, s2, s3}
  Payload = {p1, p2, p3, p4}
  NoPayload = NullPayload
  Free = nobody
INVARIANT
  ConnectionsLast
CHECK_DEADLOCK FALSE
