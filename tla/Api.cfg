SPECIFICATION Spec
\* A request that is answered, and a case that is closed, ask for nothing more.
CHECK_DEADLOCK FALSE
CONSTANTS
  r1 = r1  r2 = r2  r3 = r3  r4 = r4  k1 = k1  k2 = k2  yes = yes  no = no
  p1 = p1  s1 = s1  p2 = p2  n1 = n1  n2 = n2  unlisted = unlisted  i1 = i1  i2 = i2
  anna = anna  ben = ben  carl = carl
  Requests = {r1, r2, r3, r4}
  NoRequest = NoRequest
  KeyOf <- MCKeyOf
  BodyOf <- MCBodyOf
  MaxTrouble = 1
  Reviews = {r1, r2, r3, r4}
  Decision <- MCDecision
  ExpiresAt = 1
  MaxTime = 1
  MaxAnalyses = 1
  MaxSessions = 1
  Contacts = {p1, s1, p2}
  Incidents = {i1, i2}
  Numbers = {n1, n2, unlisted}
  Approved = {n1, n2}
  Directory <- MCDirectory
  Keep = Keep
  Nowhere = Nowhere
  Changes <- MCChanges
  Clients = {anna, ben, carl}
  KeyFor <- MCKeyFor
  DayQuota = 1
  MaxOutages = 1
SYMMETRY TwinSymmetry
INVARIANTS
  ApiTypeOK
  OneRunPerKey
  RepeatsAgree
  OutcomeFollowsReview
  AnsweredReviewStands
  CaseCanBeDialled
  MaskTellsNumber
  CallIsLetThrough
  DailyQuota
