CONSTANTS
  w1 = w1
  w2 = w2
  Workers <- MCWorkers
  MaxGrants = 2
  MaxFaults = 1
  NoRow = NoRow
  Nothing = Nothing
  NoOne = NoOne
SPECIFICATION FairSpec
PROPERTIES  NoResurrection RequestsEnd
