SPECIFICATION Spec
CONSTANTS
  m1 = m1  m2 = m2  m3 = m3  k1 = k1  k2 = k2  g1 = g1  g2 = g2
  s1 = s1  s2 = s2  s3 = s3  a1 = a1  a2 = a2
  Messages = {m1, m2}
  Keys = {k1, k2}
  Groups = {g1, g2}
  Subs = {s1, s2}
  Affinities = {a1, a2}
  Key <- MCKey
  SubGroup <- MCTwoGroups
  Affinity <- MCTwoMembers
  Score <- MCFlatScore
  Tokens = {1, 2}
  NoToken = 0
  CacheEntries = 2
  MaxInflight = 2
  MaxSubInflight = 1
  ChanCap = 1
  CheckpointEntries = 4
  StreamMemory = 25
  Reservation = 10
  GroupCharge = 2
  WorkCharge = 1
  MaxStreams = 2
  MaxBatch = 1
  MayDrain = FALSE
INVARIANTS
  NoOvertake
CHECK_DEADLOCK FALSE
