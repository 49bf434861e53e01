SPECIFICATION Spec
CONSTANTS
  r1 = r1
  r2 = r2
  k1 = k1
  chat = chat
  voice = voice
  tts = tts
  openai = openai
  Ollama = Ollama
  Session = Session
  None = None
  Requests = {r1, r2}
  Keys <- MCKeys
  Models <- MCModels
  Slugs <- MCSlugs
  Shapes <- MCShapes
  Policies <- MCPolicies
  Rows <- MCRows
  FirstPolicy <- MCFirstPolicy
  FirstRow <- MCFirstRow
  MaxChanges = 3
INVARIANTS GivenBackOnce OnlyEntitled CardNeedsSlot LoggedOnce
