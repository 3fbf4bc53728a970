SPECIFICATION Spec
CONSTANTS
  m1 = m1  m2 = m2  m3 = m3  k1 = k1  k2 = k2  g1 = g1  g2 = g2
  s1 = s1  s2 = s2  s3 = s3  a1 = a1  a2 = a2
  Messages = {m1, m2}
  Keys = {k1, k2}
  Groups = {g1}
  Subs = {s1, s2}
  Affinities = {a1, a2}
  Key <- MCKey
  SubGroup <- MCOneGroup
  Affinity <- MCTwoMembers
  Score <- MCScore
  Tokens = {1, 2}
  NoToken = 0
  CacheEntries = 2
  MaxInflight = 2
  MaxSubInflight = 1
  ChanCap = 1
  CheckpointEntries = 2
  StreamMemory = 30
  Reservation = 10
  GroupCharge = 2
  WorkCharge = 1
  MaxStreams = 1
  MaxBatch = 2
  MayDrain = TRUE
INVARIANTS
  DrainClosesStreams
CHECK_DEADLOCK FALSE
