SPECIFICATION Spec
\* A clip that is deleted, or whose analysis has ended, asks for nothing more.
CHECK_DEADLOCK FALSE
CONSTANTS
  r1 = r1  r2 = r2  r3 = r3  r4 = r4
  k1 = k1  k2 = k2  k3 = k3  first = first
  c1 = c1  c2 = c2  u1 = u1  u2 = u2
  road = road  phone = phone  worker1 = worker1
  Requests = {r1, r2, r3, r4}
  NoRequest = NoRequest
  KeyOf <- MCKeyOf
  BodyOf <- MCTargetOf
  TargetOf <- MCTargetOf
  Chain = first
  MaxTrouble = 1
  Clips = {c1, c2}
  Uploads = {u1, u2}
  SizeOf <- MCSizeOf
  Quota = 2
  Retention = 1
  MaxTime = 1
  MaxSweeps = 2
  MaxFaults = 1
  Cameras = {road}
  Captures = {phone}
  Short = {phone}
  Handlers = {worker1}
  Rounds = 3
  MaxPending = 1
  MaxMishaps = 1
INVARIANT DeletionReachesProvider
