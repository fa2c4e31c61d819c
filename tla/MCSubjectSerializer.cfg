SPECIFICATION FairSpec
CONSTANTS
  c1 = c1
  c2 = c2
  c3 = c3
  d1 = d1
  r1 = r1
  s1 = s1
  s2 = s2
  NoCall = NoCall
  Calls = {c1, c2, c3, d1}
  Readers = {r1}
  Subjects = {s1, s2}
  SubjectOf <- MCSubjectOf
INVARIANTS
  MutualExclusion
  ReadAfterEarlierMutations
  NoTailLeak
PROPERTIES
  EveryCallSettles
  ImplementsQueue
CHECK_DEADLOCK FALSE
