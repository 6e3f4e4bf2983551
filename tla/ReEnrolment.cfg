SPECIFICATION Spec
CONSTANTS
  s1 = s1
  s2 = s2
  u1 = u1
  u2 = u2
  Site = {s1, s2}
  NoSite = NoSite
  Url = {u1, u2}
  HomeUrl = u1
  FirstSite <- OneEach
  MaxRows = 2
  MaxEnrol = 2
  MaxSetUps = 1
  MaxRestarts = 1
PROPERTIES LostOnlyInTheGap DroppedStaysDropped
CHECK_DEADLOCK FALSE
