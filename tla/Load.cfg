SPECIFICATION FairSpec
CONSTANTS
  c1 = c1
  c2 = c2
  t1 = t1
  t2 = t2
  chat = chat
  voice = voice
  None = None
  Clients = {c1, c2}
  Models <- MCModels
  Tasks = {t1, t2}
  Expiry = 2
  MaxTime = 2
INVARIANTS LoadsConsistent
PROPERTIES PlaceKept CallsEnd
