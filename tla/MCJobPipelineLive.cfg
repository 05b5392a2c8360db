CONSTANTS
  j1 = j1
  j2 = j2
  m1 = m1
  m2 = m2
  Jobs = {j1, j2}
  Kind <- MCKindPlain
  Movers = {m1}
  Runners = {r1, r2, r3}
  MaxTopic = 4
  Nobody = Nobody
  Faults <- MCDuplicate
SPECIFICATION LiveSpec
PROPERTY PlainJobsEnd
