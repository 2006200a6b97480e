SPECIFICATION Spec
\* Requests that are answered and runs that are over ask for nothing more.
CHECK_DEADLOCK FALSE
CONSTANTS
  m1 = m1  m2 = m2  m3 = m3  k1 = k1  k2 = k2  again = again  back = back
  api1 = api1  api2 = api2  va = va  vb = vb  ra = ra  rb = rb
  Requests = {m1, m2, m3}
  NoRequest = NoRequest
  KeyOf <- MCKeyOf
  BodyOf <- MCBodyOf
  MaxTrouble = 0
  Approvers = {m1, m2, m3}
  Processes = {api1, api2}
  ProcessOf <- MCProcessOf
  Schedulers = {api1}
  Versions = {va, vb}
  NoVersion = NoVersion
  Rollback = Rollback
  Wanted <- MCWanted
  Approvals <- MCApprovals
  Torn = Torn
  NoFile = NoFile
  BatchSize = 1
  MaxTrainings = 1
  MaxBatches = 1
  Runs = {ra, rb}
  Last = 5
  Feed <- MCFeed
  Tenant = 1
  Categories = {1}
  Skew = 0
  MaxAttempts = 2
  MaxFailures = 0
SYMMETRY TwinSymmetry
INVARIANTS StateStaysWhole
