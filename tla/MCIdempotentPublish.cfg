SPECIFICATION PublishLive
CONSTANTS
  r1 = r1  r2 = r2  r3 = r3  r4 = r4  k1 = k1  k2 = k2  c = c  d = d
  Requests = {r1, r2, r3, r4}
  Bytes <- MCBytes
  Budget = 2
  BypassLimit = 1
  Keys = {k1, k2}
  Contents = {c, d}
  Publications <- MCPublications
  EntryLimit = 1
  None = None
INVARIANTS
  PublishTypeOK AdmissionLedger HeadBlocked SingleOwner OneCopy SameContent EntriesIndexed
PROPERTIES
  NoStarvation
CONSTRAINT MCBound
